---------------------------- MODULE Spec2Model ----------------------------
(***************************************************************************)
(* Model of the beancount-telegram-bot ledger core:                        *)
(*   - BeancountService.append_entries / _compose_content /                *)
(*     _normalize_entry / summarize_accounts (beancount_service.py)        *)
(*   - MessageProcessor._finalize_pending / _autofix_pending /             *)
(*     _handle_accounts_command (message_processor.py)                     *)
(* Text is a sequence of one-character strings.  A ledger file is a record *)
(* [exists, content].                                                      *)
(***************************************************************************)
EXTENDS Integers, Sequences, FiniteSets, Bags, TLC

VARIABLES
    ledger,     \* [Users -> file]      the per-user ledger files <root>/<user>.bean
    ledger0,    \* [Users -> file]      the files as they were at start (history variable)
    pending,    \* [PendingIds -> row]  rows of table pending_entries
    task,       \* bag of records      the locals of the webhook requests (handle_update) in flight
    started,    \* Nat                 requests received so far
    appended,   \* [PendingIds -> Nat]  non-empty appends done for the row since it last became 'pending' (history variable)
    arg,        \* the entries argument of the direct append_entries calls
    hist,       \* file states seen by the direct calls: before the first call, then after each
    book,       \* the directives loader.load_file returns for the ledger of the queries
    call,       \* the last query of the ledger: the method and its arguments
    result      \* what that query returned

vars == <<ledger, ledger0, pending, task, started, appended, arg, hist, book, call, result>>

\* the variables of the workflow and of the queries
workflow == <<ledger, ledger0, pending, task, started, appended, arg, hist>>
lookup == <<book, call, result>>

-----------------------------------------------------------------------------
(* Bounds *)

MaxLen == 2          \* longest initial ledger text of the direct-call specification
MaxEntryLen == 2     \* longest entry text of the direct-call specification
MaxCalls == 2        \* direct append_entries calls per behaviour
MaxTasks == 2        \* webhook requests per behaviour when they are handled concurrently
MaxSeqTasks == 4     \* webhook requests per behaviour when they are handled one at a time
MaxTxns == 2         \* directives of a ledger of the posting_exists queries
MaxHistory == 3      \* directives of a ledger of the history queries
MaxPairs == 3        \* pairs of a record handed to _select_top_pair
MaxKeys == 3         \* keys handed to _match_history_keys

-----------------------------------------------------------------------------
(* Text primitives (Python str methods used by the code) *)

NL == "\n"
CR == "\r"
SP == " "

\* str.strip()/rstrip() without argument remove whitespace; of the characters
\* of the model these are whitespace.
Whitespace == {SP, NL, CR}

\* str.splitlines() breaks lines at these (and at the pair CR NL).
LineBreaks == {NL, CR}

Strings(A, n) == UNION {[1..k -> A] : k \in 0..n}

LastNotIn(s, W) ==
    LET I == {i \in 1..Len(s) : s[i] \notin W}
    IN  IF I = {} THEN 0 ELSE CHOOSE i \in I : \A j \in I : j <= i

FirstNotIn(s, W) ==
    LET I == {i \in 1..Len(s) : s[i] \notin W}
    IN  IF I = {} THEN Len(s) + 1 ELSE CHOOSE i \in I : \A j \in I : i <= j

\* s.rstrip(chars)
RStripChars(s, W) == SubSeq(s, 1, LastNotIn(s, W))

\* s.rstrip()
RStrip(s) == RStripChars(s, Whitespace)

\* s.strip()
Strip(s) == SubSeq(s, FirstNotIn(s, Whitespace), LastNotIn(s, Whitespace))

\* s.endswith("\n")
EndsWithNL(s) == Len(s) > 0 /\ s[Len(s)] = NL

RECURSIVE SplitFrom(_, _, _)
SplitFrom(s, i, cur) ==
    IF i > Len(s) THEN (IF cur = <<>> THEN <<>> ELSE <<cur>>)
    ELSE IF s[i] = CR /\ i < Len(s) /\ s[i + 1] = NL
         THEN <<cur>> \o SplitFrom(s, i + 2, <<>>)
    ELSE IF s[i] \in LineBreaks
         THEN <<cur>> \o SplitFrom(s, i + 1, <<>>)
    ELSE SplitFrom(s, i + 1, Append(cur, s[i]))

\* s.splitlines()
SplitLines(s) == SplitFrom(s, 1, <<>>)

RECURSIVE Join(_, _)
\* sep.join(parts)
Join(sep, parts) ==
    IF parts = <<>> THEN <<>>
    ELSE IF Len(parts) = 1 THEN parts[1]
    ELSE parts[1] \o sep \o Join(sep, Tail(parts))

\* `needle in s` for str
Contains(s, needle) ==
    \E i \in 0..(Len(s) - Len(needle)) : SubSeq(s, i + 1, i + Len(needle)) = needle

IsPrefix(p, s) == Len(p) <= Len(s) /\ SubSeq(s, 1, Len(p)) = p

-----------------------------------------------------------------------------
(* BeancountService: text composition *)

\* _normalize_entry
NormalizeEntry(entry) ==
    LET lines == SplitLines(Strip(entry))
    IN  Join(<<NL>>, [i \in 1..Len(lines) |-> RStrip(lines[i])])

\* _ensure_trailing_newline
EnsureTrailingNewline(content) ==
    IF EndsWithNL(content) THEN content ELSE content \o <<NL>>

\* a variant of _compose_content that trims all trailing whitespace when
\* there are no new entries
ComposeContentTrimAll(existing_content, new_entries) ==
    LET existing_normalized == RStrip(existing_content)
        new_entries_text == Join(<<NL, NL>>, [i \in 1..Len(new_entries) |-> RStrip(new_entries[i])])
        combined == IF existing_normalized # <<>>
                    THEN existing_normalized \o <<NL, NL>> \o new_entries_text
                    ELSE new_entries_text
    IN  IF new_entries = <<>>
        THEN (IF existing_content = <<>> THEN <<>>
              ELSE EnsureTrailingNewline(RStrip(existing_content)))
        ELSE EnsureTrailingNewline(RStrip(combined))

\* a variant of _compose_content that trims only newlines of the existing
\* content before joining
ComposeContentKeepSpaces(existing_content, new_entries) ==
    LET existing_normalized == RStripChars(existing_content, {NL})
        new_entries_text == Join(<<NL, NL>>, [i \in 1..Len(new_entries) |-> RStrip(new_entries[i])])
        combined == IF existing_normalized # <<>>
                    THEN existing_normalized \o <<NL, NL>> \o new_entries_text
                    ELSE new_entries_text
    IN  IF new_entries = <<>>
        THEN (IF existing_content = <<>> THEN <<>>
              ELSE EnsureTrailingNewline(RStripChars(existing_content, {NL})))
        ELSE EnsureTrailingNewline(RStrip(combined))

\* a variant of _compose_content that skips entries the ledger already ends with
ComposeContentDedup(existing_content, new_entries) ==
    LET existing_normalized == RStrip(existing_content)
        new_entries_text == Join(<<NL, NL>>, [i \in 1..Len(new_entries) |-> RStrip(new_entries[i])])
        n == Len(existing_normalized)
        m == Len(new_entries_text)
        dup == m <= n /\ SubSeq(existing_normalized, n - m + 1, n) = new_entries_text
        combined == IF existing_normalized # <<>> /\ ~dup
                    THEN existing_normalized \o <<NL, NL>> \o new_entries_text
                    ELSE IF dup THEN existing_normalized ELSE new_entries_text
    IN  IF new_entries = <<>>
        THEN (IF existing_content = <<>> THEN <<>>
              ELSE EnsureTrailingNewline(RStripChars(existing_content, {NL})))
        ELSE EnsureTrailingNewline(RStrip(combined))

\* a variant of _compose_content that writes the new entries alone
ComposeContentOverwrite(existing_content, new_entries) ==
    LET new_entries_text == Join(<<NL, NL>>, [i \in 1..Len(new_entries) |-> RStrip(new_entries[i])])
    IN  IF new_entries = <<>>
        THEN (IF existing_content = <<>> THEN <<>>
              ELSE EnsureTrailingNewline(RStripChars(existing_content, {NL})))
        ELSE EnsureTrailingNewline(RStrip(new_entries_text))

\* _compose_content
ComposeContent(existing_content, new_entries) ==
    LET existing_normalized == RStrip(existing_content)
        new_entries_text == Join(<<NL, NL>>, [i \in 1..Len(new_entries) |-> RStrip(new_entries[i])])
        combined == IF existing_normalized # <<>>
                    THEN existing_normalized \o <<NL, NL>> \o new_entries_text
                    ELSE new_entries_text
    IN  IF new_entries = <<>>
        THEN (IF existing_content = <<>> THEN <<>>
              ELSE EnsureTrailingNewline(RStripChars(existing_content, {NL})))
        ELSE EnsureTrailingNewline(RStrip(combined))

\* append_entries, line 48: the entries that are not blank, normalized
RECURSIVE CleanedEntries(_)
CleanedEntries(entries) ==
    IF entries = <<>> THEN <<>>
    ELSE IF Strip(Head(entries)) # <<>>
         THEN <<NormalizeEntry(Head(entries))>> \o CleanedEntries(Tail(entries))
         ELSE CleanedEntries(Tail(entries))

-----------------------------------------------------------------------------
(* Ledger files *)

Users == {"u1", "u2"}

\* no query was made
NoCall == [method |-> "none"]

AbsentFile == [exists |-> FALSE, content |-> <<>>]
File(content) == [exists |-> TRUE, content |-> content]

\* ledger_path.read_text() if ledger_path.exists() else ""
ReadOrEmpty(file) == IF file.exists THEN file.content ELSE <<>>

\* append_entries as one call (read, compose, write)
AppendEntries(file, entries) ==
    File(ComposeContent(ReadOrEmpty(file), CleanedEntries(entries)))


-----------------------------------------------------------------------------
(* The external parser, as far as the workflow depends on it.              *)
(* loader.load_file is beancount's; it is modelled by a parser of one-     *)
(* character directives: "p" stands alone (option, price, comment), "o"    *)
(* opens the account, "t" is a transaction on that account and is an error *)
(* when no "o" is in the file (beancount orders directives by date, not by *)
(* position), "x" does not parse.  Whitespace carries no meaning.          *)

Directives == {"p", "o", "t", "x"}

LineOf(content, i) == 1 + Cardinality({j \in 1..(i - 1) : content[j] = NL})

RECURSIVE ErrorsFrom(_, _)
ErrorsFrom(content, i) ==
    IF i > Len(content) THEN <<>>
    ELSE IF content[i] = "x"
         THEN <<[lineno |-> LineOf(content, i), message |-> "syntax error"]>>
              \o ErrorsFrom(content, i + 1)
    ELSE IF content[i] = "t" /\ \A j \in 1..Len(content) : content[j] # "o"
         THEN <<[lineno |-> LineOf(content, i), message |-> "unknown account"]>>
              \o ErrorsFrom(content, i + 1)
    ELSE ErrorsFrom(content, i + 1)

\* _validate_ledger: the errors of loading the file
ValidateLedger(file) == ErrorsFrom(ReadOrEmpty(file), 1)

-----------------------------------------------------------------------------
(* State of the workflow *)

PendingIds == {1, 2}

O == <<"o">>
T == <<"t">>
X == <<"x">>

\* entry lists a proposer (LLM client) may hand over
EntryPool == {<<O>>, <<T>>, <<X>>}

\* ledger texts of user u1 at start
InitialTexts == {<<"p", NL>>, <<"p", NL, NL, NL>>, <<"x", NL>>}
InitialLedgers == {AbsentFile} \cup {File(c) : c \in InitialTexts}

\* the locals of a request handler as it starts
NewTask(kind, pid, from, pc) ==
    [kind |-> kind, pid |-> pid, from |-> from, pc |-> pc, user |-> from,
     entries |-> <<>>, previous_content |-> <<>>, existing |-> <<>>,
     errors |-> <<>>, pre |-> AbsentFile, exposed |-> FALSE]

\* the handlers in flight
Running == BagToSet(task)
InFlight == BagCardinality(task)

\* handler me goes on as next / returns
Continue(me, next) == (task (-) SetToBag({me})) (+) SetToBag({next})
Return(me) == task (-) SetToBag({me})

InitWorkflow ==
    /\ \E f \in InitialLedgers : ledger = [u \in Users |-> IF u = "u1" THEN f ELSE File(<<"p", NL>>)]
    /\ ledger0 = ledger
    /\ \E e1 \in EntryPool, e2 \in EntryPool, o2 \in Users :
          pending = [p \in PendingIds |->
                        [status |-> "pending",
                         entries |-> IF p = 1 THEN e1 ELSE e2,
                         owner |-> IF p = 1 THEN "u1" ELSE o2,
                         error_context |-> "none"]]
    /\ task = EmptyBag
    /\ started = 0
    /\ appended = [p \in PendingIds |-> 0]
    /\ arg = <<>>
    /\ hist = <<>>
    /\ book = <<>>
    /\ call = NoCall
    /\ result = NoCall

-----------------------------------------------------------------------------
(* handle_update: a webhook request arrives *)

\* the callback data prefixes _handle_callback dispatches on
CallbackKinds == {"accept", "reject", "autofix"}

\* _handle_callback for accept:/reject:/autofix: data, up to the first await
StartCallback(kinds, total, limit) ==
    /\ started < total
    /\ InFlight < limit
    /\ \E k \in kinds, p \in PendingIds, u \in Users :
          task' = task (+) SetToBag({NewTask(k, p, u, "get")})
    /\ started' = started + 1
    /\ UNCHANGED <<ledger, ledger0, pending, appended, arg, hist, lookup>>

\* handle_update for the /accounts command, up to _handle_accounts_command
StartAccounts(total, limit) ==
    /\ started < total
    /\ InFlight < limit
    /\ \E u \in Users :
          task' = task (+) SetToBag({NewTask("accounts", 0, u, "sum_read")})
    /\ started' = started + 1
    /\ UNCHANGED <<ledger, ledger0, pending, appended, arg, hist, lookup>>

-----------------------------------------------------------------------------
(* _finalize_pending and _autofix_pending *)

\* a variant in which every entry is committed to the ledger of one user
GetPendingOneLedger(me) ==
    LET record == pending[me.pid]
        rec == [me EXCEPT !.user = "u1", !.entries = record.entries]
    IN  /\ me.pc = "get"
        /\ task' =
              IF me.kind = "autofix"
              THEN IF record.status # "error" THEN Return(me)
                   ELSE IF record.error_context = "none" THEN Return(me)
                   ELSE Continue(me, [rec EXCEPT !.pc = "sum_read"])
              ELSE IF record.status # "pending" THEN Return(me)
                   ELSE IF record.owner # me.from THEN Return(me)
                   ELSE IF me.kind = "accept" THEN Continue(me, [rec EXCEPT !.pc = "snapshot"])
                   ELSE Continue(me, [rec EXCEPT !.pc = "set_rejected"])
        /\ UNCHANGED <<ledger, ledger0, pending, started, appended, arg, hist, lookup>>

\* a variant without the check of the status at lines 614-618
GetPendingAnyStatus(me) ==
    LET record == pending[me.pid]
        rec == [me EXCEPT !.user = record.owner, !.entries = record.entries]
    IN  /\ me.pc = "get"
        /\ task' =
              IF me.kind = "autofix"
              THEN IF record.status # "error" THEN Return(me)
                   ELSE IF record.error_context = "none" THEN Return(me)
                   ELSE Continue(me, [rec EXCEPT !.pc = "sum_read"])
              ELSE IF record.owner # me.from THEN Return(me)
                   ELSE IF me.kind = "accept" THEN Continue(me, [rec EXCEPT !.pc = "snapshot"])
                   ELSE Continue(me, [rec EXCEPT !.pc = "set_rejected"])
        /\ UNCHANGED <<ledger, ledger0, pending, started, appended, arg, hist, lookup>>

\* get_pending_entry and the checks of the record
GetPending(me) ==
    LET record == pending[me.pid]
        rec == [me EXCEPT !.user = record.owner, !.entries = record.entries]
    IN  /\ me.pc = "get"
        /\ task' =
              IF me.kind = "autofix"
              THEN IF record.status # "error" THEN Return(me)
                   ELSE IF record.error_context = "none" THEN Return(me)
                   ELSE Continue(me, [rec EXCEPT !.pc = "sum_read"])
              ELSE IF record.status # "pending" THEN Return(me)
                   ELSE IF record.owner # me.from THEN Return(me)
                   ELSE IF me.kind = "accept" THEN Continue(me, [rec EXCEPT !.pc = "snapshot"])
                   ELSE Continue(me, [rec EXCEPT !.pc = "set_rejected"])
        /\ UNCHANGED <<ledger, ledger0, pending, started, appended, arg, hist, lookup>>

\* a variant of the snapshot that keeps the right-trimmed text
SnapshotTextTrimmed(file) == RStrip(ReadOrEmpty(file))

\* previous_content, lines 643-645
SnapshotText(file) == ReadOrEmpty(file)

Snapshot(me) ==
    /\ me.pc = "snapshot"
    /\ task' = Continue(me, [me EXCEPT !.previous_content = SnapshotText(ledger[me.user]),
                                       !.pre = ledger[me.user],
                                       !.pc = "append_read"])
    /\ UNCHANGED <<ledger, ledger0, pending, started, appended, arg, hist, lookup>>

\* append_entries in its worker thread: the read of the existing content
AppendRead(me) ==
    /\ me.pc = "append_read"
    /\ task' = Continue(me, [me EXCEPT !.existing = ReadOrEmpty(ledger[me.user]),
                                       !.pc = "append_write"])
    /\ UNCHANGED <<ledger, ledger0, pending, started, appended, arg, hist, lookup>>

\* append_entries in its worker thread: compose and write
AppendWrite(me) ==
    LET cleaned_entries == CleanedEntries(me.entries)
    IN  /\ me.pc = "append_write"
        /\ ledger' = [ledger EXCEPT ![me.user] = File(ComposeContent(me.existing, cleaned_entries))]
        /\ appended' = [appended EXCEPT ![me.pid] = @ + (IF cleaned_entries # <<>> THEN 1 ELSE 0)]
        /\ task' = Continue(me, [me EXCEPT !.existing = <<>>, !.pc = "validate"])
        /\ UNCHANGED <<ledger0, pending, started, arg, hist, lookup>>

\* _validate_ledger in its worker thread, and the branch on its result
Validate(me) ==
    LET validation_errors == ValidateLedger(ledger[me.user])
    IN  /\ me.pc = "validate"
        /\ task' = Continue(me, [me EXCEPT !.errors = validation_errors,
                                           !.pc = IF validation_errors # <<>>
                                                  THEN "rollback" ELSE "set_accepted"])
        /\ UNCHANGED <<ledger, ledger0, pending, started, appended, arg, hist, lookup>>

\* a variant of the rollback that leaves the file as the append wrote it
RollbackSkipped(me) ==
    /\ me.pc = "rollback"
    /\ task' = Continue(me, [me EXCEPT !.pc = "set_error"])
    /\ UNCHANGED <<ledger, ledger0, pending, started, appended, arg, hist, lookup>>

\* line 655: write the snapshot back
Rollback(me) ==
    /\ me.pc = "rollback"
    /\ ledger' = [ledger EXCEPT ![me.user] = File(me.previous_content)]
    /\ task' = Continue(me, [me EXCEPT !.pc = "set_error"])
    /\ UNCHANGED <<ledger0, pending, started, appended, arg, hist, lookup>>

\* update_pending_entry_status(pending_id, "error", None, error_context), return
SetError(me) ==
    /\ me.pc = "set_error"
    /\ pending' = [pending EXCEPT ![me.pid] = [@ EXCEPT !.status = "error", !.error_context = "details"]]
    /\ task' = Return(me)
    /\ UNCHANGED <<ledger, ledger0, started, appended, arg, hist, lookup>>

\* update_pending_entry_status(pending_id, "accepted", ledger_path), return
SetAccepted(me) ==
    /\ me.pc = "set_accepted"
    /\ pending' = [pending EXCEPT ![me.pid] = [@ EXCEPT !.status = "accepted"]]
    /\ task' = Return(me)
    /\ UNCHANGED <<ledger, ledger0, started, appended, arg, hist, lookup>>

\* update_pending_entry_status(pending_id, "rejected", None), return
SetRejected(me) ==
    /\ me.pc = "set_rejected"
    /\ pending' = [pending EXCEPT ![me.pid] = [@ EXCEPT !.status = "rejected"]]
    /\ task' = Return(me)
    /\ UNCHANGED <<ledger, ledger0, started, appended, arg, hist, lookup>>

-----------------------------------------------------------------------------
(* _finalize_pending: a step of the try block raises *)

\* the steps of lines 641-728 that read or write a file or the database
RaisingSteps ==
    {"snapshot", "append_read", "append_write", "rollback", "set_error", "set_accepted", "set_rejected"}

\* the step raises before it has had an effect; control goes to line 743
Raise(me) ==
    /\ me.pc \in RaisingSteps
    /\ task' = Continue(me, [me EXCEPT !.pc = "except"])
    /\ UNCHANGED <<ledger, ledger0, pending, started, appended, arg, hist, lookup>>

\* the row as update_pending_entry_status of line 673, 708 or 728 leaves it
StatusWritten(me) ==
    [pending[me.pid] EXCEPT
        !.status = CASE me.pc = "set_error" -> "error"
                     [] me.pc = "set_accepted" -> "accepted"
                     [] OTHER -> "rejected",
        !.error_context = IF me.pc = "set_error" THEN "details" ELSE @]

\* lines 673-674, 708-709, 728-729: the status is written and committed, then
\* update_message_response raises
RaiseResponse(me) ==
    /\ me.pc \in {"set_error", "set_accepted", "set_rejected"}
    /\ pending' = [pending EXCEPT ![me.pid] = StatusWritten(me)]
    /\ task' = Continue(me, [me EXCEPT !.pc = "except"])
    /\ UNCHANGED <<ledger, ledger0, started, appended, arg, hist, lookup>>

\* lines 743-751: update_pending_entry_status(pending_id, "error", None);
\* COALESCE(NULL, error_context) keeps the error context of the row
Except(me) ==
    /\ me.pc = "except"
    /\ pending' = [pending EXCEPT ![me.pid] = [@ EXCEPT !.status = "error"]]
    /\ task' = Return(me)
    /\ UNCHANGED <<ledger, ledger0, started, appended, arg, hist, lookup>>

\* line 746 raises as well (the database is still failing): the exception
\* leaves the handler and the row is as it was
ExceptRaise(me) ==
    /\ me.pc = "except"
    /\ task' = Return(me)
    /\ UNCHANGED <<ledger, ledger0, pending, started, appended, arg, hist, lookup>>

-----------------------------------------------------------------------------
(* summarize_accounts, called for /accounts and by _call_llm *)

\* summarize_accounts returns: _call_llm goes on to the model, /accounts answers
AfterSummary(me, others) ==
    IF me.kind = "autofix"
    THEN others (+) SetToBag({[me EXCEPT !.existing = <<>>, !.pc = "llm"]})
    ELSE IF me.kind = "message"
    THEN others (+) SetToBag({[me EXCEPT !.existing = <<>>, !.pc = "propose"]})
    ELSE others

\* lines 56-62: the emptiness check, the read and the comparison
SumRead(me) ==
    LET file == ledger[me.user]
    IN  /\ me.pc = "sum_read"
        /\ task' =
              IF ~file.exists \/ file.content = <<>> THEN AfterSummary(me, Return(me))
              ELSE Continue(me, [me EXCEPT !.existing = file.content,
                                           !.pc = IF ComposeContent(file.content, <<>>) # file.content
                                                  THEN "sum_write" ELSE "sum_load"])
        /\ UNCHANGED <<ledger, ledger0, pending, started, appended, arg, hist, lookup>>

\* line 63: write the normalized text
SumWrite(me) ==
    /\ me.pc = "sum_write"
    /\ ledger' = [ledger EXCEPT ![me.user] = File(ComposeContent(me.existing, <<>>))]
    /\ task' = Continue(me, [me EXCEPT !.pc = "sum_load"])
    /\ UNCHANGED <<ledger0, pending, started, appended, arg, hist, lookup>>

\* the entries of commit c are in the text a reader of that ledger loads while
\* c is between its append and its rollback
SeesUncommitted(reader, c) ==
    /\ c.user = reader.user
    /\ c.pc \in {"validate", "rollback"}
    /\ CleanedEntries(c.entries) # <<>>
    /\ Contains(ReadOrEmpty(ledger[reader.user]), Join(<<NL, NL>>, CleanedEntries(c.entries)))

Sum(f) ==
    LET RECURSIVE SumOver(_)
        SumOver(D) == IF D = {} THEN 0
                      ELSE LET x == CHOOSE x \in D : TRUE IN f[x] + SumOver(D \ {x})
    IN  SumOver(DOMAIN f)

\* the history mark on commit c when reader loads the ledger
Mark(reader, c) ==
    IF SeesUncommitted(reader, c) THEN [c EXCEPT !.exposed = TRUE] ELSE c

\* bag B with every handler c replaced by Mark(reader, c)
MarkExposed(reader, B) ==
    [y \in {Mark(reader, x) : x \in DOMAIN B} |->
        Sum([x \in {z \in DOMAIN B : Mark(reader, z) = y} |-> B[x]])]

\* line 65: loader.load_file, the text the balances are computed from
SumLoad(me) ==
    /\ me.pc = "sum_load"
    /\ task' = AfterSummary(me, MarkExposed(me, Return(me)))
    /\ UNCHANGED <<ledger, ledger0, pending, started, appended, arg, hist, lookup>>

\* a variant of the UPDATE of lines 889-902 that keeps the error context
AutofixApplyKeepContext(me) ==
    /\ me.pc = "llm"
    /\ \E new_entries \in EntryPool :
          pending' = [pending EXCEPT ![me.pid] = [@ EXCEPT !.entries = new_entries,
                                                           !.status = "pending"]]
    /\ appended' = [appended EXCEPT ![me.pid] = 0]
    /\ task' = Return(me)
    /\ UNCHANGED <<ledger, ledger0, started, arg, hist, lookup>>

\* lines 888-902: the LLM returned new entries; the row is rewritten
AutofixApply(me) ==
    /\ me.pc = "llm"
    /\ \E new_entries \in EntryPool :
          pending' = [pending EXCEPT ![me.pid] = [@ EXCEPT !.entries = new_entries,
                                                           !.status = "pending",
                                                           !.error_context = "none"]]
    /\ appended' = [appended EXCEPT ![me.pid] = 0]
    /\ task' = Return(me)
    /\ UNCHANGED <<ledger, ledger0, started, arg, hist, lookup>>

\* a variant of the except branch that gives the entry up
AutofixFailClearsContext(me) ==
    /\ me.pc = "llm"
    /\ pending' = [pending EXCEPT ![me.pid] = [@ EXCEPT !.error_context = "none"]]
    /\ task' = Return(me)
    /\ UNCHANGED <<ledger, ledger0, started, appended, arg, hist, lookup>>

\* lines 878-886: the LLM call raised
AutofixFail(me) ==
    /\ me.pc = "llm"
    /\ task' = Return(me)
    /\ UNCHANGED <<ledger, ledger0, pending, started, appended, arg, hist, lookup>>

-----------------------------------------------------------------------------
(* Specifications of the workflow *)

\* requests are handled concurrently, interleaved at every await and thread step
Next ==
    \/ StartCallback(CallbackKinds, MaxTasks, MaxTasks)
    \/ StartAccounts(MaxTasks, MaxTasks)
    \/ \E me \in Running : GetPending(me)
    \/ \E me \in Running : Snapshot(me)
    \/ \E me \in Running : AppendRead(me)
    \/ \E me \in Running : AppendWrite(me)
    \/ \E me \in Running : Validate(me)
    \/ \E me \in Running : Rollback(me)
    \/ \E me \in Running : SetError(me)
    \/ \E me \in Running : SetAccepted(me)
    \/ \E me \in Running : SetRejected(me)
    \/ \E me \in Running : SumRead(me)
    \/ \E me \in Running : SumWrite(me)
    \/ \E me \in Running : SumLoad(me)
    \/ \E me \in Running : AutofixApply(me)
    \/ \E me \in Running : AutofixFail(me)

Spec == InitWorkflow /\ [][Next]_vars

\* requests are handled one at a time
NextSeq ==
    \/ StartCallback(CallbackKinds, MaxSeqTasks, 1)
    \/ StartAccounts(MaxSeqTasks, 1)
    \/ \E me \in Running : GetPending(me)
    \/ \E me \in Running : Snapshot(me)
    \/ \E me \in Running : AppendRead(me)
    \/ \E me \in Running : AppendWrite(me)
    \/ \E me \in Running : Validate(me)
    \/ \E me \in Running : Rollback(me)
    \/ \E me \in Running : SetError(me)
    \/ \E me \in Running : SetAccepted(me)
    \/ \E me \in Running : SetRejected(me)
    \/ \E me \in Running : SumRead(me)
    \/ \E me \in Running : SumWrite(me)
    \/ \E me \in Running : SumLoad(me)
    \/ \E me \in Running : AutofixApply(me)
    \/ \E me \in Running : AutofixFail(me)

SpecSeq == InitWorkflow /\ [][NextSeq]_vars

\* accept callbacks alone, handled concurrently
NextAccepts ==
    \/ StartCallback({"accept"}, MaxTasks, MaxTasks)
    \/ \E me \in Running : GetPending(me)
    \/ \E me \in Running : Snapshot(me)
    \/ \E me \in Running : AppendRead(me)
    \/ \E me \in Running : AppendWrite(me)
    \/ \E me \in Running : Validate(me)
    \/ \E me \in Running : Rollback(me)
    \/ \E me \in Running : SetError(me)
    \/ \E me \in Running : SetAccepted(me)

SpecAccepts == InitWorkflow /\ [][NextAccepts]_vars

\* requests are handled one at a time; steps of _finalize_pending may raise
NextSeqFaults ==
    \/ StartCallback(CallbackKinds, MaxSeqTasks, 1)
    \/ StartAccounts(MaxSeqTasks, 1)
    \/ \E me \in Running : GetPending(me)
    \/ \E me \in Running : Snapshot(me)
    \/ \E me \in Running : AppendRead(me)
    \/ \E me \in Running : AppendWrite(me)
    \/ \E me \in Running : Validate(me)
    \/ \E me \in Running : Rollback(me)
    \/ \E me \in Running : SetError(me)
    \/ \E me \in Running : SetAccepted(me)
    \/ \E me \in Running : SetRejected(me)
    \/ \E me \in Running : SumRead(me)
    \/ \E me \in Running : SumWrite(me)
    \/ \E me \in Running : SumLoad(me)
    \/ \E me \in Running : AutofixApply(me)
    \/ \E me \in Running : AutofixFail(me)
    \/ \E me \in Running : Raise(me)
    \/ \E me \in Running : RaiseResponse(me)
    \/ \E me \in Running : Except(me)
    \/ \E me \in Running : ExceptRaise(me)

SpecSeqFaults == InitWorkflow /\ [][NextSeqFaults]_vars

-----------------------------------------------------------------------------
(* handle_update: a transaction text becomes a proposal *)

\* a row of pending_entries that is not there yet
NoRow == [status |-> "none", entries |-> <<>>, owner |-> "none", error_context |-> "none"]

\* handle_update for a transaction text, up to summarize_accounts in _call_llm
StartMessage(total, limit) ==
    /\ started < total
    /\ InFlight < limit
    /\ \E u \in Users :
          task' = task (+) SetToBag({NewTask("message", 0, u, "sum_read")})
    /\ started' = started + 1
    /\ UNCHANGED <<ledger, ledger0, pending, appended, arg, hist, lookup>>

\* the id the next INSERT gets
NextPendingId == CHOOSE p \in PendingIds : pending[p] = NoRow /\ \A q \in PendingIds : pending[q] = NoRow => p <= q

\* a variant of the creation that also writes the entries to the ledger
CreatePendingAndAppend(me) ==
    /\ me.pc = "propose"
    /\ \E p \in PendingIds : pending[p] = NoRow
    /\ \E entries \in EntryPool :
          /\ pending' = [pending EXCEPT ![NextPendingId] =
                            [status |-> "pending", entries |-> entries,
                             owner |-> me.from, error_context |-> "none"]]
          /\ ledger' = [ledger EXCEPT ![me.from] = AppendEntries(@, entries)]
    /\ task' = Return(me)
    /\ UNCHANGED <<ledger0, started, appended, arg, hist, lookup>>

\* lines 147-221: the LLM returned entries; create_pending_entry stores them
CreatePending(me) ==
    /\ me.pc = "propose"
    /\ \E p \in PendingIds : pending[p] = NoRow
    /\ \E entries \in EntryPool :
          pending' = [pending EXCEPT ![NextPendingId] =
                         [status |-> "pending", entries |-> entries,
                          owner |-> me.from, error_context |-> "none"]]
    /\ task' = Return(me)
    /\ UNCHANGED <<ledger, ledger0, started, appended, arg, hist, lookup>>

\* lines 222-233: the LLM call raised; nothing is stored
CreateFail(me) ==
    /\ me.pc = "propose"
    /\ task' = Return(me)
    /\ UNCHANGED <<ledger, ledger0, pending, started, appended, arg, hist, lookup>>

\* one proposal is there, the second row is still to be created
InitProposals ==
    /\ \E f \in InitialLedgers : ledger = [u \in Users |-> IF u = "u1" THEN f ELSE File(<<"p", NL>>)]
    /\ ledger0 = ledger
    /\ \E e1 \in EntryPool :
          pending = [p \in PendingIds |->
                        IF p = 1 THEN [status |-> "pending", entries |-> e1,
                                       owner |-> "u1", error_context |-> "none"]
                        ELSE NoRow]
    /\ task = EmptyBag
    /\ started = 0
    /\ appended = [p \in PendingIds |-> 0]
    /\ arg = <<>>
    /\ hist = <<>>
    /\ book = <<>>
    /\ call = NoCall
    /\ result = NoCall

\* messages and callbacks are handled concurrently
NextProposals ==
    \/ StartMessage(MaxTasks, MaxTasks)
    \/ StartCallback(CallbackKinds, MaxTasks, MaxTasks)
    \/ \E me \in Running : CreatePending(me)
    \/ \E me \in Running : CreateFail(me)
    \/ \E me \in Running : GetPending(me)
    \/ \E me \in Running : Snapshot(me)
    \/ \E me \in Running : AppendRead(me)
    \/ \E me \in Running : AppendWrite(me)
    \/ \E me \in Running : Validate(me)
    \/ \E me \in Running : Rollback(me)
    \/ \E me \in Running : SetError(me)
    \/ \E me \in Running : SetAccepted(me)
    \/ \E me \in Running : SetRejected(me)
    \/ \E me \in Running : SumRead(me)
    \/ \E me \in Running : SumWrite(me)
    \/ \E me \in Running : SumLoad(me)
    \/ \E me \in Running : AutofixApply(me)
    \/ \E me \in Running : AutofixFail(me)

SpecProposals == InitProposals /\ [][NextProposals]_vars

-----------------------------------------------------------------------------
(* Direct calls of append_entries *)

FileChars == {"p", SP, NL}
EntryChars == {"t", SP, NL, CR}

EntryTexts == Strings(EntryChars, MaxEntryLen)
EntryLists == {<<>>} \cup {<<e>> : e \in EntryTexts} \cup {<<e, f>> : e \in EntryTexts, f \in EntryTexts}

InitAppend ==
    /\ \E f \in {AbsentFile} \cup {File(c) : c \in Strings(FileChars, MaxLen)} :
          /\ ledger = [u \in Users |-> IF u = "u1" THEN f ELSE AbsentFile]
          /\ hist = <<f>>
    /\ ledger0 = ledger
    /\ arg \in EntryLists
    /\ pending = [p \in PendingIds |->
                    [status |-> "pending", entries |-> <<>>, owner |-> "u1", error_context |-> "none"]]
    /\ task = EmptyBag
    /\ started = 0
    /\ appended = [p \in PendingIds |-> 0]
    /\ book = <<>>
    /\ call = NoCall
    /\ result = NoCall

\* append_entries("u1", arg)
CallAppendEntries ==
    /\ Len(hist) <= MaxCalls
    /\ ledger' = [ledger EXCEPT !["u1"] = AppendEntries(ledger["u1"], arg)]
    /\ hist' = Append(hist, ledger'["u1"])
    /\ UNCHANGED <<ledger0, pending, task, started, appended, arg, lookup>>

NextAppend == CallAppendEntries

SpecAppend == InitAppend /\ [][NextAppend]_vars


-----------------------------------------------------------------------------
(* Queries of the ledger: what loader.load_file returns                     *)
(* A directive is a record [date, payee, narration, postings]; a directive  *)
(* that is no transaction has no postings.  A posting is [account, units],  *)
(* units being NoUnits or [number, currency].  An account name is the       *)
(* sequence of its components, a number is a count of hundredths, a date is *)
(* a day number.  load_file returns the directives ordered by date.         *)

\* Python's None where a string or a date is optional
None == "None"
NoDate == 0
NoUnits == [number |-> 0, currency |-> None]

Days == {1, 2}

\* bool(x) of an optional string
Truthy(x) == x \notin {None, ""}

SortedByDate(entries) ==
    \A i \in 1..Len(entries), j \in 1..Len(entries) : i < j => entries[i].date <= entries[j].date

\* the sequences of at most n elements of pool that load_file can return
Books(pool, n) == {b \in Strings(pool, n) : SortedByDate(b)}

\* the ledger file is absent or has size zero
NoLedger(file) == ~file.exists \/ file.content = <<>>

-----------------------------------------------------------------------------
(* posting_exists *)

DigitChars == <<"0", "1", "2", "3", "4", "5", "6", "7", "8", "9">>
IsDigit(c) == \E k \in 1..10 : DigitChars[k] = c
DigitVal(c) == (CHOOSE k \in 1..10 : DigitChars[k] = c) - 1

RECURSIVE IntOf(_)
IntOf(digits) ==
    IF digits = <<>> THEN 0
    ELSE 10 * IntOf(SubSeq(digits, 1, Len(digits) - 1)) + DigitVal(digits[Len(digits)])

\* Decimal(text) for texts with at most two decimals: blanks around the
\* number are dropped, a sign may lead, anything else raises InvalidOperation
ParseDecimal(text) ==
    LET t == Strip(text)
        signed == t # <<>> /\ t[1] \in {"-", "+"}
        body == IF signed THEN Tail(t) ELSE t
        dots == {k \in 1..Len(body) : body[k] = "."}
        dot == IF dots = {} THEN Len(body) + 1 ELSE CHOOSE k \in dots : TRUE
        ip == SubSeq(body, 1, dot - 1)
        fp == SubSeq(body, dot + 1, Len(body))
        magnitude == 100 * IntOf(ip) + (IF Len(fp) = 1 THEN 10 * IntOf(fp) ELSE IntOf(fp))
    IN  IF /\ Cardinality(dots) <= 1
           /\ ip \o fp # <<>>
           /\ Len(fp) <= 2
           /\ \A k \in 1..Len(ip) : IsDigit(ip[k])
           /\ \A k \in 1..Len(fp) : IsDigit(fp[k])
        THEN [ok |-> TRUE, value |-> IF signed /\ t[1] = "-" THEN 0 - magnitude ELSE magnitude]
        ELSE [ok |-> FALSE, value |-> 0]

\* _to_decimal: a Decimal is kept, an int or a float goes through str (a float
\* of the model prints with at most two decimals), a str is parsed
ToDecimal(amount) ==
    CASE amount.type = "Decimal" -> [ok |-> TRUE, value |-> amount.value]
      [] amount.type = "int" -> [ok |-> TRUE, value |-> 100 * amount.value]
      [] amount.type = "float" -> [ok |-> TRUE, value |-> amount.value]
      [] amount.type = "str" -> ParseDecimal(amount.text)

\* datetime.fromisoformat(date_str).date(), NoDate when it raises ValueError
ParseIsoDate(date_str) ==
    IF date_str.form \in {"iso", "iso_time"} THEN date_str.day ELSE NoDate

\* lines 116-122: the date the postings are filtered by
TargetDate(date_str) ==
    IF date_str.form \in {"None", "empty"} THEN NoDate ELSE ParseIsoDate(date_str)

\* a variant of the loop that matches the amount with its sign
PostingMatchesSameSign(postings, k, account_name, target_amount, currency) ==
    \E j \in k..Len(postings) :
        /\ postings[j].units # NoUnits
        /\ postings[j].account = account_name
        /\ ~(Truthy(currency) /\ postings[j].units.currency # currency)
        /\ postings[j].units.number = target_amount

\* a variant of the loop that takes any currency
PostingMatchesAnyCurrency(postings, k, account_name, target_amount, currency) ==
    \E j \in k..Len(postings) :
        /\ postings[j].units # NoUnits
        /\ postings[j].account = account_name
        /\ postings[j].units.number \in {target_amount, 0 - target_amount}

\* lines 134-146: the loop over the postings of one entry
RECURSIVE PostingMatches(_, _, _, _, _)
PostingMatches(postings, k, account_name, target_amount, currency) ==
    IF k > Len(postings) THEN FALSE
    ELSE LET posting == postings[k]
             units == posting.units
         IN  IF units = NoUnits
             THEN PostingMatches(postings, k + 1, account_name, target_amount, currency)
             ELSE IF /\ posting.account = account_name
                     /\ ~(Truthy(currency) /\ units.currency # currency)
                     /\ (units.number = target_amount \/ units.number = 0 - target_amount)
                  THEN TRUE
                  ELSE PostingMatches(postings, k + 1, account_name, target_amount, currency)

\* lines 124-148: the loop over the entries
RECURSIVE EntryMatches(_, _, _, _, _, _)
EntryMatches(entries, i, account_name, target_amount, currency, target_date) ==
    IF i > Len(entries) THEN FALSE
    ELSE LET entry == entries[i]
         IN  IF entry.postings = <<>>
             THEN EntryMatches(entries, i + 1, account_name, target_amount, currency, target_date)
             ELSE IF target_date # NoDate /\ entry.date # target_date
             THEN EntryMatches(entries, i + 1, account_name, target_amount, currency, target_date)
             ELSE IF PostingMatches(entry.postings, 1, account_name, target_amount, currency)
             THEN TRUE
             ELSE EntryMatches(entries, i + 1, account_name, target_amount, currency, target_date)

\* posting_exists: [raised, value]
PostingExists(file, entries, account_name, amount, currency, date_str) ==
    IF NoLedger(file) THEN [raised |-> FALSE, value |-> FALSE]
    ELSE LET target == ToDecimal(amount)
         IN  IF ~target.ok THEN [raised |-> TRUE, value |-> FALSE]
             ELSE [raised |-> FALSE,
                   value |-> EntryMatches(entries, 1, account_name, target.value,
                                          currency, TargetDate(date_str))]

-----------------------------------------------------------------------------
(* history_records: _build_history_records and _normalize_description *)

UpperChars == <<"A", "B">>
LowerChars == <<"a", "b">>

\* str.lower(), character by character
LowerChar(c) ==
    IF \E k \in 1..Len(UpperChars) : UpperChars[k] = c
    THEN LowerChars[CHOOSE k \in 1..Len(UpperChars) : UpperChars[k] = c]
    ELSE c

\* re.sub(r"\s+", " ", text)
RECURSIVE CollapseWhitespace(_)
CollapseWhitespace(text) ==
    IF text = <<>> THEN <<>>
    ELSE IF text[1] \in Whitespace
         THEN <<SP>> \o CollapseWhitespace(SubSeq(text, FirstNotIn(text, Whitespace), Len(text)))
         ELSE <<text[1]>> \o CollapseWhitespace(Tail(text))

\* _normalize_description
NormalizeDescription(text) ==
    Strip(CollapseWhitespace([k \in 1..Len(text) |-> LowerChar(text[k])]))

\* line 221: the payee, or the narration when the payee is blank
Description(entry) ==
    IF Strip(entry.payee) # <<>> THEN Strip(entry.payee) ELSE Strip(entry.narration)

\* line 226
Accounts(entry) == [k \in 1..Len(entry.postings) |-> entry.postings[k].account]

\* acc.startswith(("Assets", "Liabilities")): the first component of an
\* account name is one of beancount's five root names
StartsWithLedgerRoot(account) == account[1] \in {"Assets", "Liabilities"}

\* a variant of the classification that takes every account as ledger-side
LedgerAccountsUnclassified(accounts) == accounts

\* line 230
LedgerAccounts(accounts) == SelectSeq(accounts, StartsWithLedgerRoot)

\* line 231
CounterAccounts(accounts) == SelectSeq(accounts, LAMBDA a : ~StartsWithLedgerRoot(a))

\* the index of the record of key in records (a dict in insertion order), 0 if none
RecordIndex(records, key) ==
    IF \E k \in 1..Len(records) : records[k].normalized = key
    THEN CHOOSE k \in 1..Len(records) : records[k].normalized = key
    ELSE 0

\* the index of pair in pair_counts (a dict in insertion order), 0 if none
PairIndex(pair_counts, pair) ==
    IF \E k \in 1..Len(pair_counts) : pair_counts[k].pair = pair
    THEN CHOOSE k \in 1..Len(pair_counts) : pair_counts[k].pair = pair
    ELSE 0

\* line 248: pair_counts[pair] = pair_counts.get(pair, 0) + 1
CountPair(pair_counts, pair) ==
    LET k == PairIndex(pair_counts, pair)
    IN  IF k = 0 THEN Append(pair_counts, [pair |-> pair, count |-> 1])
        ELSE [pair_counts EXCEPT ![k].count = @ + 1]

\* a variant of lines 248-251 that keeps the date and text of the first transaction
SeenAgainKeepFirst(existing, pair, entry_date, description) ==
    [existing EXCEPT !.pair_counts = CountPair(@, pair)]

\* lines 248-251: a key seen again
SeenAgain(existing, pair, entry_date, description) ==
    LET counted == [existing EXCEPT !.pair_counts = CountPair(@, pair)]
    IN  IF entry_date # NoDate /\ (existing.last_date = NoDate \/ entry_date >= existing.last_date)
        THEN [counted EXCEPT !.last_date = entry_date, !.description = description]
        ELSE counted

\* lines 216-251: the loop over the entries
RECURSIVE BuildFrom(_, _, _)
BuildFrom(entries, i, records) ==
    IF i > Len(entries) THEN records
    ELSE LET entry == entries[i]
             description == Description(entry)
             normalized == NormalizeDescription(description)
             accounts == Accounts(entry)
             ledger_accounts == LedgerAccounts(accounts)
             counter_accounts == CounterAccounts(accounts)
             pair == <<ledger_accounts[1], counter_accounts[1]>>
             k == RecordIndex(records, normalized)
         IN  IF entry.postings = <<>> THEN BuildFrom(entries, i + 1, records)
             ELSE IF description = <<>> THEN BuildFrom(entries, i + 1, records)
             ELSE IF Len(accounts) < 2 THEN BuildFrom(entries, i + 1, records)
             ELSE IF ledger_accounts = <<>> \/ counter_accounts = <<>>
             THEN BuildFrom(entries, i + 1, records)
             ELSE IF k = 0
             THEN BuildFrom(entries, i + 1,
                            Append(records, [description |-> description,
                                             normalized |-> normalized,
                                             last_date |-> entry.date,
                                             pair_counts |-> <<[pair |-> pair, count |-> 1]>>]))
             ELSE BuildFrom(entries, i + 1,
                            [records EXCEPT ![k] = SeenAgain(@, pair, entry.date, description)])

\* _build_history_records: the records in the order of the dict
BuildHistoryRecords(file, entries) ==
    IF NoLedger(file) THEN <<>> ELSE BuildFrom(entries, 1, <<>>)

-----------------------------------------------------------------------------
(* _select_top_pair, _match_history_keys, suggest_counter_account,          *)
(* transaction_history_summary                                              *)

\* None where an account name or a pair is optional
NoAccount == <<>>
NoPair == <<>>

\* sorted(items, key=count, reverse=True): x goes before the first item of a
\* smaller count, so items of one count keep their order
InsertByCount(sorted, x) ==
    LET smaller == {k \in 1..Len(sorted) : sorted[k].count < x.count}
        at == IF smaller = {} THEN Len(sorted) + 1
              ELSE CHOOSE k \in smaller : \A j \in smaller : k <= j
    IN  SubSeq(sorted, 1, at - 1) \o <<x>> \o SubSeq(sorted, at, Len(sorted))

RECURSIVE SortByCountFrom(_, _, _)
SortByCountFrom(items, k, sorted) ==
    IF k > Len(items) THEN sorted
    ELSE SortByCountFrom(items, k + 1, InsertByCount(sorted, items[k]))

\* line 272
SortedPairs(pair_counts) == SortByCountFrom(pair_counts, 1, <<>>)

\* a variant of _select_top_pair that takes the most frequent pair whatever its ledger account
SelectTopPairGlobal(record, ledger_account) ==
    IF record.pair_counts = <<>> THEN [pair |-> NoPair, count |-> 0]
    ELSE SortedPairs(record.pair_counts)[1]

\* _select_top_pair: [pair, count]
SelectTopPair(record, ledger_account) ==
    IF record.pair_counts = <<>> THEN [pair |-> NoPair, count |-> 0]
    ELSE LET sorted_pairs == SortedPairs(record.pair_counts)
             ledger_matches == SelectSeq(sorted_pairs, LAMBDA item : item.pair[1] = ledger_account)
         IN  IF ledger_account # NoAccount /\ ledger_matches # <<>>
             THEN ledger_matches[1]
             ELSE sorted_pairs[1]

\* difflib.get_close_matches(query, key_list, n=3, cutoff=0.8): the lists it
\* can return are lists of at most 3 different members of key_list
CloseMatches(query, key_list) ==
    {m \in Strings({key_list[k] : k \in 1..Len(key_list)}, 3) :
        \A a \in 1..Len(m), b \in 1..Len(m) : a # b => m[a] # m[b]}

\* a variant of _match_history_keys without the exact-match shortcut
MatchHistoryKeysNoExact(query, key_list) ==
    LET substring_matches ==
            SelectSeq(key_list, LAMBDA key : Contains(key, query) \/ Contains(query, key))
    IN  IF substring_matches # <<>> THEN {substring_matches}
        ELSE CloseMatches(query, key_list)

\* _match_history_keys: the lists it can return
MatchHistoryKeys(query, key_list) ==
    LET substring_matches ==
            SelectSeq(key_list, LAMBDA key : Contains(key, query) \/ Contains(query, key))
    IN  IF \E k \in 1..Len(key_list) : key_list[k] = query THEN {<<query>>}
        ELSE IF substring_matches # <<>> THEN {substring_matches}
        ELSE CloseMatches(query, key_list)

\* records.keys()
Keys(records) == [k \in 1..Len(records) |-> records[k].normalized]

\* lines 199-207: the loop over the candidates
RECURSIVE FirstSuggestion(_, _, _, _, _)
FirstSuggestion(records, candidates, k, ledger_account, min_count) ==
    IF k > Len(candidates) THEN NoAccount
    ELSE LET at == RecordIndex(records, candidates[k])
             top == SelectTopPair(records[at], ledger_account)
         IN  IF at = 0 THEN FirstSuggestion(records, candidates, k + 1, ledger_account, min_count)
             ELSE IF top.pair # NoPair /\ top.count >= min_count THEN top.pair[2]
             ELSE FirstSuggestion(records, candidates, k + 1, ledger_account, min_count)

\* a variant of suggest_counter_account that ignores min_count
SuggestAnyCount(records, candidates, ledger_account, min_count) ==
    FirstSuggestion(records, candidates, 1, Strip(ledger_account), 0)

\* suggest_counter_account after _match_history_keys returned candidates;
\* ledger_account is NoAccount for None
SuggestCounterAccount(records, candidates, ledger_account, min_count) ==
    IF records = <<>> THEN NoAccount
    ELSE IF candidates = <<>> THEN NoAccount
    ELSE FirstSuggestion(records, candidates, 1, Strip(ledger_account), min_count)

\* sorted(records, key=last_date or date.min, reverse=True)
InsertByDate(sorted, x) ==
    LET earlier == {k \in 1..Len(sorted) : sorted[k].last_date < x.last_date}
        at == IF earlier = {} THEN Len(sorted) + 1
              ELSE CHOOSE k \in earlier : \A j \in earlier : k <= j
    IN  SubSeq(sorted, 1, at - 1) \o <<x>> \o SubSeq(sorted, at, Len(sorted))

RECURSIVE SortByDateFrom(_, _, _)
SortByDateFrom(items, k, sorted) ==
    IF k > Len(items) THEN sorted
    ELSE SortByDateFrom(items, k + 1, InsertByDate(sorted, items[k]))

\* lines 155-159
SortedRecords(records) == SortByDateFrom(records, 1, <<>>)

\* seq[:limit]
SliceTo(seq, limit) ==
    IF limit >= 0 THEN SubSeq(seq, 1, IF limit < Len(seq) THEN limit ELSE Len(seq))
    ELSE SubSeq(seq, 1, Len(seq) + limit)

\* sum(record.pair_counts.values())
RECURSIVE TotalSeen(_)
TotalSeen(pair_counts) ==
    IF pair_counts = <<>> THEN 0 ELSE pair_counts[1].count + TotalSeen(Tail(pair_counts))

\* lines 163-172: the line of a record, as the values it prints
SummaryLine(record) ==
    LET top == SelectTopPair(record, NoAccount)
    IN  [description |-> record.description,
         ledger_account |-> top.pair[1],
         counter_account |-> top.pair[2],
         last_date |-> record.last_date,
         total_seen |-> TotalSeen(record.pair_counts),
         pair_count |-> top.count]

\* a variant of the summary that keeps the order of the dict
SummaryLinesUnsorted(records, limit) ==
    LET kept == SelectSeq(SliceTo(records, limit),
                          LAMBDA record : SelectTopPair(record, NoAccount).pair # NoPair)
    IN  [k \in 1..Len(kept) |-> SummaryLine(kept[k])]

\* transaction_history_summary after _build_history_records returned records
SummaryLines(records, limit) ==
    LET kept == SelectSeq(SliceTo(SortedRecords(records), limit),
                          LAMBDA record : SelectTopPair(record, NoAccount).pair # NoPair)
    IN  [k \in 1..Len(kept) |-> SummaryLine(kept[k])]

-----------------------------------------------------------------------------
(* Direct calls of posting_exists *)

CASH == <<"Assets", "Cash">>
FOOD == <<"Expenses", "Food">>
JOB == <<"Income", "Job">>

USD100 == [number |-> 100, currency |-> "USD"]
EUR100 == [number |-> 100, currency |-> "EUR"]

Posting(account, units) == [account |-> account, units |-> units]
Negated(units) == [units EXCEPT !.number = 0 - @]

PostingPool ==
    {Posting(a, u) : a \in {CASH, FOOD}, u \in {USD100, Negated(USD100), EUR100}}
        \cup {Posting(CASH, NoUnits)}

\* no posting, one posting, or a posting on CASH with its counter-posting
PostingLists ==
    {<<>>} \cup {<<p>> : p \in PostingPool}
           \cup {<<Posting(CASH, u), Posting(JOB, Negated(u))>> : u \in {USD100, Negated(USD100)}}

PostingEntries ==
    [date : Days, payee : {<<>>}, narration : {<<"a">>}, postings : PostingLists]

\* an amount argument: a Decimal or float (value in hundredths), an int, or a str (text)
Number(type, value) == [type |-> type, value |-> value, text |-> <<>>]

AmountArgs ==
    {Number("Decimal", 100), Number("Decimal", 200), Number("int", 1), Number("float", 0 - 100),
     [type |-> "str", value |-> 0, text |-> <<SP, "1", ".", "0">>],
     [type |-> "str", value |-> 0, text |-> <<"a">>]}

\* -X for an amount argument X; for a str, the text with the other sign
NegatedArg(amount) ==
    LET t == Strip(amount.text)
    IN  IF amount.type # "str" THEN [amount EXCEPT !.value = 0 - @]
        ELSE IF t # <<>> /\ t[1] = "-"
             THEN [amount EXCEPT !.text = Tail(t)]
             ELSE [amount EXCEPT !.text = <<"-">> \o t]

\* date strings: none, "", ISO date, ISO date and time, day/month/year
DateArgs ==
    {[form |-> "None", day |-> NoDate], [form |-> "empty", day |-> NoDate]}
        \cup [form : {"iso"}, day : Days]
        \cup {[form |-> "iso_time", day |-> 1], [form |-> "dmy", day |-> 1]}

InitPostings ==
    /\ \E f \in {AbsentFile, File(<<>>), File(<<"p", NL>>)} :
          /\ ledger = [u \in Users |-> IF u = "u1" THEN f ELSE AbsentFile]
          /\ book \in IF NoLedger(f) THEN {<<>>} ELSE Books(PostingEntries, MaxTxns)
    /\ ledger0 = ledger
    /\ pending = [p \in PendingIds |->
                    [status |-> "pending", entries |-> <<>>, owner |-> "u1", error_context |-> "none"]]
    /\ task = EmptyBag
    /\ started = 0
    /\ appended = [p \in PendingIds |-> 0]
    /\ arg = <<>>
    /\ hist = <<>>
    /\ call = NoCall
    /\ result = NoCall

\* posting_exists("u1", account_name, amount, currency, date_str=date_str)
CallPostingExists ==
    /\ call = NoCall
    /\ \E account_name \in {CASH, FOOD}, amount \in AmountArgs,
          currency \in {None, "", "USD", "EUR"}, date_str \in DateArgs :
          /\ call' = [method |-> "posting_exists", account_name |-> account_name,
                      amount |-> amount, currency |-> currency, date_str |-> date_str]
          /\ result' = PostingExists(ledger["u1"], book, account_name, amount, currency, date_str)
    /\ UNCHANGED <<workflow, book>>

NextPostings == CallPostingExists

SpecPostings == InitPostings /\ [][NextPostings]_vars

-----------------------------------------------------------------------------
(* Direct calls of history_records, suggest_counter_account and            *)
(* transaction_history_summary                                              *)

CARD == <<"Liabilities", "Card">>

Legs(accounts) == [k \in 1..Len(accounts) |-> Posting(accounts[k], USD100)]

\* payee and narration: keys "a", "a" and "b"
HistoryTexts ==
    {[payee |-> <<"A">>, narration |-> <<"b">>],
     [payee |-> <<SP>>, narration |-> <<"a", SP>>],
     [payee |-> <<>>, narration |-> <<"b">>]}

Entry(date, text, postings) ==
    [date |-> date, payee |-> text.payee, narration |-> text.narration, postings |-> postings]

\* transactions that make a record, on every day; on day 1 also directives
\* that make none: no description, no posting, one class only
HistoryEntries ==
    {Entry(d, t, Legs(a)) : d \in Days, t \in HistoryTexts,
                            a \in {<<CASH, FOOD>>, <<JOB, CARD, CASH>>}}
        \cup {Entry(1, [payee |-> <<>>, narration |-> <<SP>>], Legs(<<CASH, FOOD>>))}
        \cup {Entry(1, [payee |-> <<>>, narration |-> <<"a">>], Legs(a)) :
                 a \in {<<>>, <<CASH, CARD>>, <<FOOD, JOB>>}}

InitHistory ==
    /\ \E f \in {AbsentFile, File(<<>>), File(<<"p", NL>>)} :
          /\ ledger = [u \in Users |-> IF u = "u1" THEN f ELSE AbsentFile]
          /\ book \in IF NoLedger(f) THEN {<<>>} ELSE Books(HistoryEntries, MaxHistory)
    /\ ledger0 = ledger
    /\ pending = [p \in PendingIds |->
                    [status |-> "pending", entries |-> <<>>, owner |-> "u1", error_context |-> "none"]]
    /\ task = EmptyBag
    /\ started = 0
    /\ appended = [p \in PendingIds |-> 0]
    /\ arg = <<>>
    /\ hist = <<>>
    /\ call = NoCall
    /\ result = NoCall

\* history_records("u1")
CallHistoryRecords ==
    /\ call = NoCall
    /\ call' = [method |-> "history_records"]
    /\ result' = BuildHistoryRecords(ledger["u1"], book)
    /\ UNCHANGED <<workflow, book>>

\* the ledger_account arguments: None, an account after a blank
LedgerAccountArgs == {NoAccount, <<SP>> \o CARD}

\* suggest_counter_account("u1", description, ledger_account, min_count=min_count);
\* candidates is what _match_history_keys returned
CallSuggestCounterAccount ==
    /\ call = NoCall
    /\ \E description \in {<<"A", SP>>, <<"b", "a">>, <<"c">>},
          ledger_account \in LedgerAccountArgs, min_count \in {1, 2} :
          LET records == BuildHistoryRecords(ledger["u1"], book)
          IN  \E candidates \in MatchHistoryKeys(NormalizeDescription(description), Keys(records)) :
                 /\ call' = [method |-> "suggest_counter_account", description |-> description,
                             ledger_account |-> ledger_account, min_count |-> min_count,
                             candidates |-> candidates]
                 /\ result' = SuggestCounterAccount(records, candidates, ledger_account, min_count)
    /\ UNCHANGED <<workflow, book>>

\* transaction_history_summary("u1", limit=limit)
CallHistorySummary ==
    /\ call = NoCall
    /\ \E limit \in {0 - 1, 0, 1, 2, 25} :
          /\ call' = [method |-> "transaction_history_summary", limit |-> limit]
          /\ result' = SummaryLines(BuildHistoryRecords(ledger["u1"], book), limit)
    /\ UNCHANGED <<workflow, book>>

NextHistory ==
    \/ CallHistoryRecords
    \/ CallSuggestCounterAccount
    \/ CallHistorySummary

SpecHistory == InitHistory /\ [][NextHistory]_vars

-----------------------------------------------------------------------------
(* Direct calls of _select_top_pair and _match_history_keys *)

PairPool == {<<CASH, FOOD>>, <<CASH, JOB>>, <<CARD, FOOD>>}

\* pair_counts of at most MaxPairs pairs, each counted once, twice or three times
PairCounts ==
    {pc \in Strings([pair : PairPool, count : {1, 2, 3}], MaxPairs) :
        \A a \in 1..Len(pc), b \in 1..Len(pc) : a # b => pc[a].pair # pc[b].pair}

KeyPool == {<<"a">>, <<"b">>, <<"a", "b">>, <<"b", SP, "a">>}

\* lists of at most MaxKeys different keys
KeyLists ==
    {ks \in Strings(KeyPool, MaxKeys) :
        \A a \in 1..Len(ks), b \in 1..Len(ks) : a # b => ks[a] # ks[b]}

InitHelpers ==
    /\ ledger = [u \in Users |-> AbsentFile]
    /\ ledger0 = ledger
    /\ pending = [p \in PendingIds |->
                    [status |-> "pending", entries |-> <<>>, owner |-> "u1", error_context |-> "none"]]
    /\ task = EmptyBag
    /\ started = 0
    /\ appended = [p \in PendingIds |-> 0]
    /\ arg = <<>>
    /\ hist = <<>>
    /\ book = <<>>
    /\ call = NoCall
    /\ result = NoCall

\* _select_top_pair(record, ledger_account)
CallSelectTopPair ==
    /\ call = NoCall
    /\ \E pair_counts \in PairCounts, ledger_account \in {NoAccount, CASH, CARD, FOOD} :
          LET record == [description |-> <<"a">>, normalized |-> <<"a">>, last_date |-> 1,
                         pair_counts |-> pair_counts]
          IN  /\ call' = [method |-> "_select_top_pair", record |-> record,
                          ledger_account |-> ledger_account]
              /\ result' = SelectTopPair(record, ledger_account)
    /\ UNCHANGED <<workflow, book>>

\* _match_history_keys(query, keys)
CallMatchHistoryKeys ==
    /\ call = NoCall
    /\ \E query \in KeyPool \cup {<<>>, <<"c">>}, keys \in KeyLists :
          /\ call' = [method |-> "_match_history_keys", query |-> query, keys |-> keys]
          /\ result' \in MatchHistoryKeys(query, keys)
    /\ UNCHANGED <<workflow, book>>

NextHelpers ==
    \/ CallSelectTopPair
    \/ CallMatchHistoryKeys

SpecHelpers == InitHelpers /\ [][NextHelpers]_vars

-----------------------------------------------------------------------------
(* summarize_accounts and list_accounts *)

\* an Open directive of the ledger; it has an account and no postings
Open(date, account) == [date |-> date, account |-> account]

\* getattr(entry, "account", None) and getattr(entry, "postings", None)
HasAccount(entry) == "account" \in DOMAIN entry
HasPostings(entry) == "postings" \in DOMAIN entry /\ entry.postings # <<>>

\* the account names in the order of their strings
AccountNames == <<CASH, FOOD, JOB, CARD>>

\* sorted(accounts)
SortedAccounts(accounts) == SelectSeq(AccountNames, LAMBDA account : account \in accounts)

\* the accounts of the postings, as SELECT DISTINCT account FROM postings
\* and the loop of _collect_accounts_manual find them
PostingAccounts(entries) ==
    UNION {{entries[i].postings[k].account : k \in 1..Len(entries[i].postings)} :
              i \in {j \in 1..Len(entries) : HasPostings(entries[j])}}

CollectAccountsManual(entries) ==
    {entries[i].account : i \in {j \in 1..Len(entries) : HasAccount(entries[j])}}
        \cup PostingAccounts(entries)

\* bquery: the query module was imported and its query did not raise
CollectAccounts(entries, bquery) ==
    LET accounts == IF bquery THEN PostingAccounts(entries) ELSE {}
    IN  IF accounts = {} THEN CollectAccountsManual(entries) ELSE accounts

Currencies == {"USD", "EUR"}

\* the sum of the units of a currency posted on an account, from entry i on
RECURSIVE UnitsFrom(_, _, _, _)
UnitsFrom(entries, i, account, currency) ==
    IF i > Len(entries) THEN 0
    ELSE LET legs == IF HasPostings(entries[i]) THEN entries[i].postings ELSE <<>>
             mine == SelectSeq(legs, LAMBDA posting : /\ posting.account = account
                                                       /\ posting.units.currency = currency)
         IN  Sum([k \in 1..Len(mine) |-> mine[k].units.number])
                + UnitsFrom(entries, i + 1, account, currency)

\* node.balance of realization.realize: the positions that are not zero;
\* format_positions shows no position as "0"
Balance(entries, account) ==
    {[number |-> UnitsFrom(entries, 1, account, c), currency |-> c] :
        c \in {d \in Currencies : UnitsFrom(entries, 1, account, d) # 0}}

\* the errors of loader.load_file: a posting on an account that no directive opens
RECURSIVE LoadErrorsFrom(_, _)
LoadErrorsFrom(entries, i) ==
    IF i > Len(entries) THEN <<>>
    ELSE LET legs == IF HasPostings(entries[i]) THEN entries[i].postings ELSE <<>>
             unknown == SelectSeq(legs, LAMBDA posting :
                           \A j \in 1..Len(entries) :
                               HasAccount(entries[j]) => entries[j].account # posting.account)
         IN  [k \in 1..Len(unknown) |-> [message |-> "unknown account", account |-> unknown[k].account]]
                \o LoadErrorsFrom(entries, i + 1)

SummaryOf(entries, bquery) ==
    LET names == SortedAccounts(CollectAccounts(entries, bquery))
    IN  [lines |-> [k \in 1..Len(names) |->
                       [account_name |-> names[k], balance |-> Balance(entries, names[k])]],
         errors |-> LoadErrorsFrom(entries, 1)]

\* summarize_accounts without the guard of line 57, writing what it composed
SummarizeAccountsUnguarded(file, entries, bquery) ==
    [file |-> File(ComposeContent(ReadOrEmpty(file), <<>>)), value |-> SummaryOf(entries, bquery)]

\* a variant of summarize_accounts that trims all trailing whitespace
SummarizeAccountsTrimming(file, entries, bquery) ==
    IF NoLedger(file) THEN [file |-> file, value |-> [lines |-> <<>>, errors |-> <<>>]]
    ELSE LET updated_content == EnsureTrailingNewline(RStrip(file.content))
         IN  [file |-> IF updated_content # file.content THEN File(updated_content) ELSE file,
              value |-> SummaryOf(entries, bquery)]

\* summarize_accounts: the file it leaves and the (lines, errors) it returns
SummarizeAccounts(file, entries, bquery) ==
    IF NoLedger(file) THEN [file |-> file, value |-> [lines |-> <<>>, errors |-> <<>>]]
    ELSE LET updated_content == ComposeContent(file.content, <<>>)
         IN  [file |-> IF updated_content # file.content THEN File(updated_content) ELSE file,
              value |-> SummaryOf(entries, bquery)]

ListAccounts(file, entries, bquery) ==
    IF NoLedger(file) THEN <<>> ELSE SortedAccounts(CollectAccounts(entries, bquery))

-----------------------------------------------------------------------------
(* Direct calls of summarize_accounts and list_accounts *)

\* two accounts opened, a purchase on each day, a card payment
AccountEntries ==
    {Open(1, CASH), Open(1, JOB)}
        \cup {Entry(d, [payee |-> <<>>, narration |-> <<"a">>],
                    <<Posting(CASH, Negated(USD100)), Posting(FOOD, USD100)>>) : d \in Days}
        \cup {Entry(2, [payee |-> <<>>, narration |-> <<"b">>],
                    <<Posting(CARD, Negated(EUR100)), Posting(CASH, EUR100)>>)}

\* a text with directives loads as any book, a text without as none
InitAccounts ==
    /\ \E f \in {AbsentFile} \cup {File(c) : c \in Strings(FileChars, MaxLen)} :
          /\ ledger = [u \in Users |-> IF u = "u1" THEN f ELSE AbsentFile]
          /\ hist = <<f>>
          /\ book \in IF \E k \in 1..Len(f.content) : f.content[k] = "p"
                      THEN Books(AccountEntries, MaxTxns) ELSE {<<>>}
    /\ ledger0 = ledger
    /\ arg = <<>>
    /\ pending = [p \in PendingIds |->
                    [status |-> "pending", entries |-> <<>>, owner |-> "u1", error_context |-> "none"]]
    /\ task = EmptyBag
    /\ started = 0
    /\ appended = [p \in PendingIds |-> 0]
    /\ call = NoCall
    /\ result = NoCall

\* summarize_accounts("u1")
CallSummarizeAccounts ==
    /\ Len(hist) <= MaxCalls
    /\ \E bquery \in BOOLEAN :
          LET done == SummarizeAccounts(ledger["u1"], book, bquery)
          IN  /\ ledger' = [ledger EXCEPT !["u1"] = done.file]
              /\ hist' = Append(hist, done.file)
              /\ call' = [method |-> "summarize_accounts", bquery |-> bquery]
              /\ result' = done.value
    /\ UNCHANGED <<ledger0, pending, task, started, appended, arg, book>>

\* list_accounts("u1")
CallListAccounts ==
    /\ Len(hist) <= MaxCalls
    /\ \E bquery \in BOOLEAN :
          /\ call' = [method |-> "list_accounts", bquery |-> bquery]
          /\ result' = ListAccounts(ledger["u1"], book, bquery)
    /\ hist' = Append(hist, ledger["u1"])
    /\ UNCHANGED <<ledger, ledger0, pending, task, started, appended, arg, book>>

NextAccounts ==
    \/ CallSummarizeAccounts
    \/ CallListAccounts

SpecAccounts == InitAccounts /\ [][NextAccounts]_vars

-----------------------------------------------------------------------------
(* Direct calls of the operations that read the ledger *)

\* one call of a history or posting lookup, then calls of summarize_accounts
\* and list_accounts
NextReads ==
    \/ CallSummarizeAccounts
    \/ CallListAccounts
    \/ CallPostingExists
    \/ CallHistoryRecords
    \/ CallSuggestCounterAccount
    \/ CallHistorySummary

\* the transactions of AccountEntries: entries every lookup can read
ReadEntries == {entry \in AccountEntries : HasPostings(entry)}

\* ledger texts: empty, newlines only, with and without an end of line, with
\* a run of newlines, with a blank before the end
ReadTexts ==
    {<<>>, <<NL, NL>>, <<"p">>, <<"p", NL>>, <<"p", NL, NL, NL>>, <<"p", SP, NL, NL>>}

InitReads ==
    /\ \E f \in {AbsentFile} \cup {File(c) : c \in ReadTexts} :
          /\ ledger = [u \in Users |-> IF u = "u1" THEN f ELSE AbsentFile]
          /\ hist = <<f>>
          /\ book \in IF \E k \in 1..Len(f.content) : f.content[k] = "p"
                      THEN {<<entry>> : entry \in ReadEntries} ELSE {<<>>}
    /\ ledger0 = ledger
    /\ arg = <<>>
    /\ pending = [p \in PendingIds |->
                    [status |-> "pending", entries |-> <<>>, owner |-> "u1", error_context |-> "none"]]
    /\ task = EmptyBag
    /\ started = 0
    /\ appended = [p \in PendingIds |-> 0]
    /\ call = NoCall
    /\ result = NoCall

SpecReads == InitReads /\ [][NextReads]_vars

-----------------------------------------------------------------------------
(* The error report of a failed commit *)

MaxErrors == 6       \* validation errors of one failed commit
MaxErrorLines == 5

\* str(err) of a validation error: what the patterns lineno': (\d+) and
\* message='([^']+)' find in it ("" when there is no match), and the text
ErrorTexts ==
    {[lineno |-> "3", message |-> "m", text |-> "LoadError(lineno, message)"],
     [lineno |-> "", message |-> "m", text |-> "ValidationError(message)"],
     [lineno |-> "", message |-> "", text |-> "exception"]}

FormatValidationError(error_text) ==
    [lineno |-> IF error_text.lineno # "" THEN error_text.lineno ELSE "?",
     message |-> IF error_text.message # "" THEN error_text.message ELSE error_text.text]

\* a variant that formats every error
ErrorLinesAll(validation_errors) ==
    [k \in 1..Len(validation_errors) |-> FormatValidationError(validation_errors[k])]

\* line 656: the lines of validation_errors[:5]
ErrorLines(validation_errors) ==
    [k \in 1..(IF Len(validation_errors) < MaxErrorLines THEN Len(validation_errors) ELSE MaxErrorLines)
        |-> FormatValidationError(validation_errors[k])]

\* lines 657-672: the error context, and the response, which has the same parts
ErrorContext(validation_errors, entries, original_text) ==
    [error_summary |-> ErrorLines(validation_errors),
     entry_preview |-> [k \in 1..Len(entries) |-> Strip(entries[k])],
     original_text |-> original_text]

InitReport ==
    /\ arg \in Strings(ErrorTexts, MaxErrors)
    /\ ledger = [u \in Users |-> AbsentFile]
    /\ ledger0 = ledger
    /\ pending = [p \in PendingIds |->
                    [status |-> "pending", entries |-> <<>>, owner |-> "u1", error_context |-> "none"]]
    /\ task = EmptyBag
    /\ started = 0
    /\ appended = [p \in PendingIds |-> 0]
    /\ hist = <<>>
    /\ book = <<>>
    /\ call = NoCall
    /\ result = NoCall

\* lines 654-673 with validation_errors = arg, a non-empty list
ReportErrors ==
    /\ call = NoCall
    /\ arg # <<>>
    /\ \E entries \in {<<T>>, <<<<SP, "t">>, X>>} :
          /\ call' = [method |-> "error_context", entries |-> entries]
          /\ result' = ErrorContext(arg, entries, "text")
    /\ UNCHANGED <<workflow, book>>

NextReport == ReportErrors

SpecReport == InitReport /\ [][NextReport]_vars

-----------------------------------------------------------------------------
(* StatementExtractor.extract and _validate_statement *)

MaxStatementTxns == 2    \* transactions of a statement

\* the check of one transaction, lines 217-231: the names it adds to missing,
\* or the RuntimeError of a wrong direction
RECURSIVE ValidateFrom(_, _, _, _, _)
ValidateFrom(transactions, k, ledger_name, allowed, missing) ==
    IF k > Len(transactions) THEN [raised |-> missing # {}, error |-> "missing"]
    ELSE LET txn == transactions[k]
             debit == Strip(txn.debit)
             credit == Strip(txn.credit)
             now_missing == missing \cup ({debit, credit} \ allowed)
         IN  IF txn.amount < 0 /\ debit # ledger_name THEN [raised |-> TRUE, error |-> "debit"]
             ELSE IF txn.amount > 0 /\ credit # ledger_name THEN [raised |-> TRUE, error |-> "credit"]
             ELSE ValidateFrom(transactions, k + 1, ledger_name, allowed, now_missing)

\* a variant that checks the names and not the direction
ValidateStatementNamesOnly(statement, allowed_accounts) ==
    LET allowed == {Strip(allowed_accounts[k]) : k \in 1..Len(allowed_accounts)}
        names == {Strip(statement.ledger_account)}
                    \cup {Strip(statement.transactions[k].debit) : k \in 1..Len(statement.transactions)}
                    \cup {Strip(statement.transactions[k].credit) : k \in 1..Len(statement.transactions)}
    IN  [raised |-> ~(names \subseteq allowed), error |-> "missing"]

\* _validate_statement: whether it raises
ValidateStatement(statement, allowed_accounts) ==
    LET allowed == {Strip(allowed_accounts[k]) : k \in 1..Len(allowed_accounts)}
        ledger_name == Strip(statement.ledger_account)
    IN  ValidateFrom(statement.transactions, 1, ledger_name, allowed,
                     IF ledger_name \in allowed THEN {} ELSE {ledger_name})

Reversed(seq) == [k \in 1..Len(seq) |-> seq[Len(seq) + 1 - k]]

NoStatement == [ledger_account |-> <<>>, transactions |-> <<>>]

\* extract: allowed_accounts are those of _get_account_context, which raises
\* when there are none; parsed is the statement the model returned, if any
Extract(allowed_accounts, parsed, statement) ==
    IF allowed_accounts = <<>> \/ ~parsed THEN [raised |-> TRUE, value |-> NoStatement]
    ELSE LET reversed == [statement EXCEPT !.transactions = Reversed(@)]
         IN  IF ValidateStatement(reversed, allowed_accounts).raised
             THEN [raised |-> TRUE, value |-> NoStatement]
             ELSE [raised |-> FALSE, value |-> reversed]

\* what the model may return as a transaction: the ledger account on the
\* side of the sign or on the other, with blanks, with an unknown account
StatementTxns ==
    [amount : {0 - 1, 0, 1},
     legs : {<<CASH, FOOD>>, <<FOOD, CASH>>, <<CASH \o <<SP>>, FOOD>>, <<FOOD, JOB>>, <<JOB, CASH>>}]

Transaction(t) == [amount |-> t.amount, debit |-> t.legs[1], credit |-> t.legs[2]]

InitStatement ==
    /\ \E allowed_accounts \in {<<>>, <<CASH>>, <<CASH, FOOD>>},
          parsed \in BOOLEAN,
          ledger_account \in {CASH, <<SP>> \o CASH, JOB},
          txns \in Strings(StatementTxns, MaxStatementTxns) :
          arg = [allowed_accounts |-> allowed_accounts, parsed |-> parsed,
                 statement |-> [ledger_account |-> ledger_account,
                                transactions |-> [k \in 1..Len(txns) |-> Transaction(txns[k])]]]
    /\ ledger = [u \in Users |-> AbsentFile]
    /\ ledger0 = ledger
    /\ pending = [p \in PendingIds |->
                    [status |-> "pending", entries |-> <<>>, owner |-> "u1", error_context |-> "none"]]
    /\ task = EmptyBag
    /\ started = 0
    /\ appended = [p \in PendingIds |-> 0]
    /\ hist = <<>>
    /\ book = <<>>
    /\ call = NoCall
    /\ result = NoCall

\* extract(user_id, statement_path)
CallExtract ==
    /\ call = NoCall
    /\ call' = [method |-> "extract"]
    /\ result' = Extract(arg.allowed_accounts, arg.parsed, arg.statement)
    /\ UNCHANGED <<workflow, book>>

NextStatement == CallExtract

SpecStatement == InitStatement /\ [][NextStatement]_vars

-----------------------------------------------------------------------------
(* StatementExtractor.generate_entries and _handle_statement_upload *)

\* _resolve_counter_account: [raised, value]
ResolveCounterAccount(ledger_account, txn) ==
    LET ledger_name == Strip(ledger_account)
        debit_hint == Strip(txn.debit)
        credit_hint == Strip(txn.credit)
        counter == IF txn.amount < 0
                   THEN IF credit_hint # <<>> /\ credit_hint # ledger_name THEN credit_hint ELSE debit_hint
                   ELSE IF debit_hint # <<>> /\ debit_hint # ledger_name THEN debit_hint ELSE credit_hint
    IN  [raised |-> counter = <<>> \/ counter = ledger_name, value |-> counter]

\* _sanitize_description
SanitizeDescription(description) ==
    LET spaced == [k \in 1..Len(description) |-> IF description[k] = NL THEN SP ELSE description[k]]
        cleaned == Strip(spaced)
    IN  [k \in 1..Len(cleaned) |-> IF cleaned[k] = "\"" THEN "'" ELSE cleaned[k]]

\* _render_entry: the date and description of the first line, the ledger
\* posting and the counter posting
RenderEntry(statement, txn, counter_account) ==
    [date |-> txn.date, description |-> SanitizeDescription(txn.description),
     ledger_account |-> Strip(statement.ledger_account), ledger_amount |-> txn.amount,
     counter_account |-> counter_account, counter_amount |-> 0 - txn.amount,
     currency |-> statement.currency]

\* _render_heading_comment
Heading == [heading |-> "import"]

\* the loop of lines 110-144 from transaction k on; suggested is what
\* suggest_counter_account returns for the descriptions of the statement
RECURSIVE GenerateFrom(_, _, _, _, _, _, _)
GenerateFrom(statement, file, entries, suggested, k, new_entries, skipped) ==
    IF k > Len(statement.transactions)
    THEN [raised |-> FALSE,
          entries |-> IF new_entries = <<>> THEN <<>> ELSE <<Heading>> \o new_entries,
          new_count |-> Len(new_entries), skipped |-> skipped]
    ELSE LET txn == statement.transactions[k]
             ledger_account == Strip(statement.ledger_account)
             resolved == ResolveCounterAccount(ledger_account, txn)
             counter_account == IF /\ suggested # NoAccount
                                   /\ suggested # resolved.value
                                   /\ suggested # ledger_account
                                THEN suggested ELSE resolved.value
             found == PostingExists(file, entries, ledger_account,
                                    [type |-> "Decimal", value |-> txn.amount, text |-> <<>>],
                                    statement.currency, txn.date)
         IN  IF txn.amount = 0
             THEN GenerateFrom(statement, file, entries, suggested, k + 1, new_entries, skipped + 1)
             ELSE IF resolved.raised
             THEN [raised |-> TRUE, entries |-> <<>>, new_count |-> 0, skipped |-> 0]
             ELSE IF found.value
             THEN GenerateFrom(statement, file, entries, suggested, k + 1, new_entries, skipped + 1)
             ELSE GenerateFrom(statement, file, entries, suggested, k + 1,
                               Append(new_entries, RenderEntry(statement, txn, counter_account)),
                               skipped)

\* a variant of generate_entries that leaves zero amounts out without counting them
GenerateEntriesUncounted(statement, file, entries, suggested) ==
    LET nonzero == [statement EXCEPT
                       !.transactions = SelectSeq(@, LAMBDA txn : txn.amount # 0)]
    IN  GenerateFrom(nonzero, file, entries, suggested, 1, <<>>, 0)

\* generate_entries: [raised, entries, new_count, skipped]
GenerateEntries(statement, file, entries, suggested) ==
    GenerateFrom(statement, file, entries, suggested, 1, <<>>, 0)

\* transactions of an uploaded statement: payments, receipts and zero amounts,
\* on the day the ledger has a posting for and on another day
UploadTxns ==
    [amount : {0 - 100, 0, 100},
     date : {[form |-> "iso", day |-> 1], [form |-> "iso", day |-> 2]},
     description : {<<"a", NL>>},
     legs : {<<CASH, FOOD>>, <<FOOD, CASH>>, <<CASH, CASH>>}]

UploadTransaction(t) ==
    [amount |-> t.amount, date |-> t.date, description |-> t.description,
     debit |-> t.legs[1], credit |-> t.legs[2]]

\* the ledger of the user: none, or a purchase of 1.00 USD on day 1
UploadLedgers ==
    {[file |-> AbsentFile, entries |-> <<>>],
     [file |-> File(<<"p", NL>>),
      entries |-> <<Entry(1, [payee |-> <<>>, narration |-> <<"a">>],
                          <<Posting(CASH, Negated(USD100)), Posting(FOOD, USD100)>>)>>]}

InitUpload ==
    /\ \E ledger_account \in {CASH, <<SP>> \o CASH},
          txns \in Strings(UploadTxns, MaxStatementTxns),
          suggested \in {NoAccount, JOB},
          ledger_file \in UploadLedgers :
          /\ arg = [suggested |-> suggested,
                    statement |-> [ledger_account |-> ledger_account, currency |-> "USD",
                                   transactions |-> [k \in 1..Len(txns) |-> UploadTransaction(txns[k])]]]
          /\ ledger = [u \in Users |-> IF u = "u1" THEN ledger_file.file ELSE AbsentFile]
          /\ book = ledger_file.entries
    /\ ledger0 = ledger
    /\ pending = [p \in PendingIds |-> NoRow]
    /\ task = EmptyBag
    /\ started = 0
    /\ appended = [p \in PendingIds |-> 0]
    /\ hist = <<>>
    /\ call = NoCall
    /\ result = NoCall

\* _handle_statement_upload for a document of u1: extract, generate_entries,
\* and create_pending_entry when there are new entries
HandleStatementUpload ==
    /\ call = NoCall
    /\ LET extracted == Extract(<<CASH, FOOD>>, TRUE, arg.statement)
           generated == IF extracted.raised
                        THEN [raised |-> TRUE, entries |-> <<>>, new_count |-> 0, skipped |-> 0]
                        ELSE GenerateEntries(extracted.value, ledger["u1"], book, arg.suggested)
       IN  /\ call' = [method |-> "generate_entries", extract_raised |-> extracted.raised,
                       statement |-> extracted.value]
           /\ result' = generated
           /\ pending' = IF generated.raised \/ generated.new_count = 0 THEN pending
                         ELSE [pending EXCEPT ![NextPendingId] =
                                  [status |-> "pending", entries |-> generated.entries,
                                   owner |-> "u1", error_context |-> "none"]]
    /\ UNCHANGED <<ledger, ledger0, task, started, appended, arg, hist, book>>

NextUpload == HandleStatementUpload

SpecUpload == InitUpload /\ [][NextUpload]_vars

-----------------------------------------------------------------------------
(* handle_update: /instruction and the reply to its prompt *)

MaxUpdates == 3      \* updates of one chat per behaviour of the instruction dialogue

\* texts are sequences of characters; a fixed phrase of the code counts as one
ReplyPrefix == "Reply to this message to edit your custom instruction"

\* None where an instruction is optional
NoInstruction == <<>>

\* str.lower() on the words the code compares with
LowerWord(c) ==
    CASE c = "RESET" -> "reset"
      [] c = "EDIT" -> "edit"
      [] c = "Empty" -> "empty"
      [] c = "JSON" -> "json"
      [] OTHER -> c
LowerText(text) == [k \in 1..Len(text) |-> LowerWord(text[k])]

\* a message the bot sent: its text and whether it asks for a reply
BotMessage(text, force_reply) == [text |-> text, force_reply |-> force_reply]

\* _handle_instruction_command: the instruction it stores and its answer
InstructionCommand(current_instruction, payload) ==
    LET normalized_payload == Strip(payload)
        lowered == LowerText(normalized_payload)
    IN  IF normalized_payload = <<>>
        THEN [instruction |-> current_instruction,
              message |-> BotMessage(IF current_instruction # NoInstruction
                                     THEN <<ReplyPrefix, ":", NL>> \o current_instruction
                                     ELSE <<"No custom instruction is set yet.", NL,
                                            "Reply to this message with new content">>,
                                     TRUE)]
        ELSE IF lowered \in {<<"reset">>, <<"clear">>}
        THEN [instruction |-> NoInstruction,
              message |-> BotMessage(<<"Custom instruction cleared.">>, FALSE)]
        ELSE IF lowered = <<"edit">>
        THEN [instruction |-> current_instruction,
              message |-> BotMessage(IF current_instruction # NoInstruction
                                     THEN <<"Copy the instruction below, edit it, then reply", NL>>
                                              \o current_instruction
                                     ELSE <<"No custom instruction is set; reply to this message">>,
                                     TRUE)]
        ELSE [instruction |-> normalized_payload,
              message |-> BotMessage(<<"Custom instruction updated:", NL>> \o normalized_payload, FALSE)]

\* _handle_instruction_reply_edit: the instruction it stores
InstructionReplyEdit(current_instruction, new_instruction) ==
    LET normalized == Strip(new_instruction)
    IN  IF normalized = <<>> THEN current_instruction
        ELSE IF LowerText(normalized) \in {<<"reset">>, <<"clear">>} THEN NoInstruction
        ELSE normalized

\* a variant of the check of lines 85-86 that takes every reply to the bot
IsInstructionPromptAny(prompt_text) == TRUE

\* lines 85-86: the replied-to text is the prompt of /instruction
IsInstructionPrompt(prompt_text) == IsPrefix(<<ReplyPrefix>>, Strip(prompt_text))

\* _looks_like_transaction
LooksLikeTransaction(text) == \E k \in 1..Len(text) : IsDigit(text[k])

\* the stored instruction of u1 is book, the messages of the bot are hist
InitInstruction ==
    /\ book \in {NoInstruction, <<"x">>}
    /\ hist = <<>>
    /\ ledger = [u \in Users |-> AbsentFile]
    /\ ledger0 = ledger
    /\ pending = [p \in PendingIds |-> NoRow]
    /\ task = EmptyBag
    /\ started = 0
    /\ appended = [p \in PendingIds |-> 0]
    /\ arg = <<>>
    /\ call = NoCall
    /\ result = NoCall

\* handle_update for "/instruction <payload>" of u1
HandleInstructionCommand ==
    /\ Len(hist) < MaxUpdates
    /\ \E payload \in {<<>>, <<"EDIT">>, <<"reset">>, <<SP, "y">>} :
          LET done == InstructionCommand(book, payload)
          IN  /\ book' = done.instruction
              /\ hist' = Append(hist, done.message)
              /\ call' = [method |-> "instruction", payload |-> payload]
              /\ result' = [handled_as |-> "command"]
    /\ UNCHANGED <<ledger, ledger0, pending, task, started, appended, arg>>

\* handle_update for a text of u1 that replies to message k of the bot
HandleReply ==
    /\ Len(hist) < MaxUpdates
    /\ \E k \in 1..Len(hist), message_text \in {<<"z", SP>>, <<"RESET">>, <<"z", "1">>} :
          LET text == Strip(message_text)
              is_edit == IsInstructionPrompt(hist[k].text)
              handled_as == IF is_edit THEN "instruction_reply"
                            ELSE IF LooksLikeTransaction(text) THEN "transaction"
                            ELSE "no_transaction"
              answer == IF handled_as = "instruction_reply"
                        THEN <<"Custom instruction">>
                        ELSE IF handled_as = "transaction"
                        THEN <<"Generating accounting entries, please wait...">>
                        ELSE <<"I didn't detect any amounts or transaction details.">>
          IN  /\ book' = IF is_edit THEN InstructionReplyEdit(book, text) ELSE book
              /\ hist' = Append(hist, BotMessage(answer, FALSE))
              /\ call' = [method |-> "reply", replied_to |-> k, text |-> message_text]
              /\ result' = [handled_as |-> handled_as]
    /\ UNCHANGED <<ledger, ledger0, pending, task, started, appended, arg>>

NextInstruction ==
    \/ HandleInstructionCommand
    \/ HandleReply

SpecInstruction == InitInstruction /\ [][NextInstruction]_vars

-----------------------------------------------------------------------------
(* generate_accounting_entry: the retry loop around _call_openai *)

MaxGenerations == 2  \* calls of generate_accounting_entry per behaviour

max_retries == 3

\* the phrases of line 105 that occur in the messages below, as words
RetryablePhrases == {<<"empty">>, <<"not", "valid", "json">>, <<"null", "content">>}

\* what one call of _call_openai does: it returns an LLMResult or raises.
\* A message is a sequence of words; a summary of None and one of "" are
\* both the empty text.
LLMResult(entries, summary) ==
    [kind |-> "LLMResult", entries |-> entries, summary |-> summary, message |-> <<>>]
Raised(kind, message) ==
    [kind |-> kind, entries |-> <<>>, summary |-> <<>>, message |-> message]

Outcomes ==
    {LLMResult(entries, summary) : entries \in {<<>>, <<"t">>}, summary \in {<<>>, <<"s">>}}
        \cup {Raised("ValueError", message) :
                 message \in {<<"Empty", "content", "from", "OpenAI", "API">>,
                              <<"Model", "response", "is", "not", "valid", "JSON">>,
                              <<"OPENAI_API_KEY", "is", "not", "configured">>}}
        \cup {Raised("Exception", <<"Server", "error">>)}

\* a variant of lines 91-97 that passes a result through only for its entries
AcceptedEntriesOnly(outcome) == outcome.kind = "LLMResult" /\ outcome.entries # <<>>

\* lines 91-97: the result is returned
Accepted(outcome) ==
    outcome.kind = "LLMResult" /\ (outcome.entries # <<>> \/ outcome.summary # <<>>)

\* line 105 on str(e).lower()
Retryable(message) == \E phrase \in RetryablePhrases : Contains(LowerText(message), phrase)

\* one pass of the loop body for the outcome of _call_openai: the call
\* returns, raises, or goes on to the sleep before the next attempt
AfterAttempt(attempt, outcome) ==
    LET last == attempt = max_retries - 1
        empty == Raised("ValueError", <<"Model", "returned", "empty", "entries">>)
    IN  IF Accepted(outcome) THEN [pc |-> "returned", value |-> outcome]
        ELSE IF outcome.kind = "LLMResult"
        THEN \* line 101 raises inside the try block and line 103 catches it
             IF last THEN [pc |-> "raised", value |-> empty]
             ELSE [pc |-> "sleep", value |-> outcome]
        ELSE IF outcome.kind = "ValueError"
        THEN IF Retryable(outcome.message) /\ ~last
             THEN [pc |-> "sleep", value |-> outcome]
             ELSE [pc |-> "raised", value |-> outcome]
        ELSE IF last THEN [pc |-> "raised", value |-> outcome]
        ELSE [pc |-> "sleep", value |-> outcome]

\* call is the running call of generate_accounting_entry, hist the outcomes
\* of its calls of _call_openai, result what it returned or raised, started
\* the number of calls so far
InitLLM ==
    /\ call = NoCall
    /\ result = NoCall
    /\ hist = <<>>
    /\ started = 0
    /\ book = <<>>
    /\ ledger = [u \in Users |-> AbsentFile]
    /\ ledger0 = ledger
    /\ pending = [p \in PendingIds |-> NoRow]
    /\ task = EmptyBag
    /\ appended = [p \in PendingIds |-> 0]
    /\ arg = <<>>

GenerateRunning == call.method = "generate" /\ call.pc \in {"call", "sleep"}

\* generate_accounting_entry is called
GenerateAccountingEntry ==
    /\ ~GenerateRunning
    /\ started < MaxGenerations
    /\ started' = started + 1
    /\ call' = [method |-> "generate", attempt |-> 0, pc |-> "call"]
    /\ hist' = <<>>
    /\ result' = NoCall
    /\ UNCHANGED <<ledger, ledger0, pending, task, appended, arg, book>>

\* lines 87-115: _call_openai and what the loop body makes of it
CallOpenai ==
    /\ call.method = "generate" /\ call.pc = "call"
    /\ \E outcome \in Outcomes :
          LET after == AfterAttempt(call.attempt, outcome)
          IN  /\ hist' = Append(hist, outcome)
              /\ call' = [call EXCEPT !.pc = after.pc]
              /\ result' = IF after.pc = "sleep" THEN result
                           ELSE [method |-> after.pc, value |-> after.value]
    /\ UNCHANGED <<ledger, ledger0, pending, task, started, appended, arg, book>>

\* lines 118-121 and the next pass of the for loop; after the last pass
\* line 124 raises
Sleep ==
    /\ call.method = "generate" /\ call.pc = "sleep"
    /\ IF call.attempt + 1 < max_retries
       THEN /\ call' = [call EXCEPT !.attempt = call.attempt + 1, !.pc = "call"]
            /\ result' = result
       ELSE /\ call' = [call EXCEPT !.pc = "raised"]
            /\ result' = [method |-> "raised",
                          value |-> Raised("ValueError", <<"Failed", "to", "get", "valid", "response">>)]
    /\ UNCHANGED <<ledger, ledger0, pending, task, started, appended, arg, book, hist>>

NextLLM ==
    \/ GenerateAccountingEntry
    \/ CallOpenai
    \/ Sleep

\* every await of the loop completes: the request has a timeout and the
\* sleep is finite
SpecLLM == InitLLM /\ [][NextLLM]_vars /\ WF_vars(CallOpenai) /\ WF_vars(Sleep)

-----------------------------------------------------------------------------
(* FavaManager: start, refresh and stop as coroutines of one event loop.   *)
(* book is the manager and its surroundings: _process is the number of the *)
(* process held (0 for None), runs[p] the ledgers process p was started    *)
(* with, alive the processes that have not exited, files the ledger files  *)
(* under the ledger root, lock the caller inside `async with self._lock`   *)
(* (0 for none), last the outcome of the last _restart_if_needed.  call[t] *)
(* is the call of caller t, started the number of calls so far and result  *)
(* the last call that returned.  A coroutine runs without interruption     *)
(* from one await to the next.                                             *)

MaxCallers == 2      \* callers of one FavaManager that run concurrently
MaxFavaCalls == 3    \* calls of start, refresh and stop per behaviour

FavaCallers == 1..MaxCallers
LedgerFiles == {"1.bean", "2.bean"}
IdleCall == [method |-> "idle", pc |-> "idle", ledgers |-> {}, next |-> "none",
             before |-> 0, live |-> FALSE, recorded |-> {}, spawns |-> 0,
             previous |-> "none"]

InitFava ==
    /\ book = [process |-> 0, current_ledgers |-> {}, lock |-> 0, alive |-> {},
               runs |-> <<>>, files |-> {}, last |-> "none"]
    /\ call = [t \in FavaCallers |-> IdleCall]
    /\ result = NoCall
    /\ started = 0
    /\ hist = <<>>
    /\ ledger = [u \in Users |-> AbsentFile]
    /\ ledger0 = ledger
    /\ pending = [p \in PendingIds |-> NoRow]
    /\ task = EmptyBag
    /\ appended = [p \in PendingIds |-> 0]
    /\ arg = <<>>

\* a variant of asyncio.Lock that lets every caller in
LockFreeAlways(lock) == TRUE

\* self._lock can be taken
LockFree(lock) == lock = 0

\* self._process.returncode is None
ReturncodeIsNone(b) == b.process \in b.alive

\* a variant of lines 48-52 that never keeps the process
KeepsProcessNever(b, ledgers) == FALSE

\* lines 48-52: the ledgers are those recorded and the process runs
KeepsProcess(b, ledgers) ==
    ledgers = b.current_ledgers /\ b.process # 0 /\ ReturncodeIsNone(b)

\* what a call that returns leaves in result
Outcome(me, b, outcome) ==
    [method |-> me.method, outcome |-> outcome, ledgers |-> me.ledgers,
     before |-> me.before, live |-> me.live, recorded |-> me.recorded,
     spawns |-> me.spawns, previous |-> me.previous,
     process |-> b.process, current_ledgers |-> b.current_ledgers, runs |-> b.runs]

\* start, refresh or stop is called
FavaCall(t) ==
    /\ call[t].pc = "idle"
    /\ started < MaxFavaCalls
    /\ started' = started + 1
    /\ \E method \in {"start", "refresh", "stop"} :
          call' = [call EXCEPT ![t] = [IdleCall EXCEPT !.method = method, !.pc = "acquire"]]
    /\ UNCHANGED <<book, result, hist, ledger, ledger0, pending, task, appended, arg>>

\* async with self._lock
Acquire(t) ==
    /\ call[t].pc = "acquire"
    /\ LockFree(book.lock)
    /\ book' = [book EXCEPT !.lock = t]
    /\ call' = [call EXCEPT ![t].pc = IF call[t].method = "stop" THEN "stop" ELSE "discover",
                            ![t].next = IF call[t].method = "stop" THEN "return" ELSE "none"]
    /\ UNCHANGED <<result, started, hist, ledger, ledger0, pending, task, appended, arg>>

\* the call of caller t returns: the lock is released and the outcome noted
Returned(t, b, outcome) ==
    /\ book' = [b EXCEPT !.lock = IF b.lock = t THEN 0 ELSE b.lock,
                         !.last = IF call[t].method = "stop" THEN b.last ELSE outcome]
    /\ call' = [call EXCEPT ![t] = IdleCall]
    /\ result' = Outcome(call[t], b, outcome)

\* what follows _stop_process up to the next await
AfterStop(t, b) ==
    IF call[t].next = "spawn"
    THEN /\ book' = b
         /\ call' = [call EXCEPT ![t].pc = "spawn"]
         /\ result' = result
    ELSE IF call[t].next = "clear"
    THEN Returned(t, [b EXCEPT !.current_ledgers = {}], "none")
    ELSE Returned(t, b, "stopped")

\* _restart_if_needed, lines 41-53: the ledgers are discovered
Discover(t) ==
    /\ call[t].pc = "discover"
    /\ LET ledgers == book.files
           me == [call[t] EXCEPT !.ledgers = ledgers, !.before = book.process,
                                 !.live = ReturncodeIsNone(book),
                                 !.recorded = book.current_ledgers,
                                 !.spawns = Len(book.runs),
                                 !.previous = book.last]
       IN  IF ledgers = {}
           THEN /\ call' = [call EXCEPT ![t] = [me EXCEPT !.pc = "stop", !.next = "clear"]]
                /\ UNCHANGED <<book, result>>
           ELSE IF KeepsProcess(book, ledgers)
           THEN /\ book' = [book EXCEPT !.lock = IF book.lock = t THEN 0 ELSE book.lock,
                                        !.last = "kept"]
                /\ call' = [call EXCEPT ![t] = IdleCall]
                /\ result' = Outcome(me, book, "kept")
           ELSE /\ call' = [call EXCEPT ![t] = [me EXCEPT !.pc = "stop", !.next = "spawn"]]
                /\ UNCHANGED <<book, result>>
    /\ UNCHANGED <<started, hist, ledger, ledger0, pending, task, appended, arg>>

\* _stop_process, lines 84-90: nothing to wait for, or terminate() and the
\* wait begins
StopProcess(t) ==
    /\ call[t].pc = "stop"
    /\ IF book.process = 0 \/ ~ReturncodeIsNone(book)
       THEN AfterStop(t, [book EXCEPT !.process = 0])
       ELSE /\ call' = [call EXCEPT ![t].pc = "wait"]
            /\ UNCHANGED <<book, result>>
    /\ UNCHANGED <<started, hist, ledger, ledger0, pending, task, appended, arg>>

\* lines 91-94: the process has not exited in time and is killed
WaitTimeout(t) ==
    /\ call[t].pc = "wait"
    /\ book.process \in book.alive
    /\ call' = [call EXCEPT ![t].pc = "killed"]
    /\ UNCHANGED <<book, result, started, hist, ledger, ledger0, pending, task, appended, arg>>

\* self._process.wait() returns, line 95
WaitReturns(t) ==
    /\ call[t].pc \in {"wait", "killed"}
    /\ book.process \notin book.alive
    /\ AfterStop(t, [book EXCEPT !.process = 0])
    /\ UNCHANGED <<started, hist, ledger, ledger0, pending, task, appended, arg>>

\* lines 56-73: create_subprocess_exec starts a process
SpawnProcess(t) ==
    /\ call[t].pc = "spawn"
    /\ LET p == Len(book.runs) + 1
       IN  Returned(t, [book EXCEPT !.process = p,
                                    !.alive = book.alive \cup {p},
                                    !.runs = Append(book.runs, call[t].ledgers),
                                    !.current_ledgers = call[t].ledgers], "spawned")
    /\ UNCHANGED <<started, hist, ledger, ledger0, pending, task, appended, arg>>

\* lines 74-81: create_subprocess_exec raises
SpawnFails(t) ==
    /\ call[t].pc = "spawn"
    /\ Returned(t, [book EXCEPT !.current_ledgers = {}], "failed")
    /\ UNCHANGED <<started, hist, ledger, ledger0, pending, task, appended, arg>>

\* a Fava process exits: on its own, after terminate() or after kill()
ProcessExits ==
    /\ \E p \in book.alive : book' = [book EXCEPT !.alive = book.alive \ {p}]
    /\ UNCHANGED <<call, result, started, hist, ledger, ledger0, pending, task, appended, arg>>

\* a ledger file appears under the ledger root or is removed from it
LedgerFilesChange ==
    /\ \E f \in LedgerFiles :
          book' = [book EXCEPT !.files = IF f \in book.files THEN book.files \ {f}
                                         ELSE book.files \cup {f}]
    /\ UNCHANGED <<call, result, started, hist, ledger, ledger0, pending, task, appended, arg>>

NextFava ==
    \/ \E t \in FavaCallers : FavaCall(t)
    \/ \E t \in FavaCallers : Acquire(t)
    \/ \E t \in FavaCallers : Discover(t)
    \/ \E t \in FavaCallers : StopProcess(t)
    \/ \E t \in FavaCallers : WaitTimeout(t)
    \/ \E t \in FavaCallers : WaitReturns(t)
    \/ \E t \in FavaCallers : SpawnProcess(t)
    \/ \E t \in FavaCallers : SpawnFails(t)
    \/ ProcessExits
    \/ LedgerFilesChange

SpecFava == InitFava /\ [][NextFava]_vars

-----------------------------------------------------------------------------
(* routes.py: the routes of the application and the proxy to Fava.  A path *)
(* is the sequence of its segments and of the "/" between them, without    *)
(* the "/" it begins with.  book is the telegram_user id of the session of *)
(* one browser, call its last request and result the response to it.       *)

MaxRequests == 2     \* log-ins and log-outs per behaviour

NoSession == "none"
SessionUsers == {"1", "2"}

\* str.strip("/")
StripSlashes(s) == SubSeq(s, FirstNotIn(s, {"/"}), LastNotIn(s, {"/"}))

\* a variant of the leading segment that takes the last one
LastSegment(stripped) ==
    IF stripped = <<>> THEN <<>> ELSE <<stripped[Len(stripped)]>>

\* stripped.split("/", 1)[0] if stripped else ""
LeadingSegment(stripped) ==
    IF \E k \in 1..Len(stripped) : stripped[k] = "/"
    THEN SubSeq(stripped, 1, (CHOOSE k \in 1..Len(stripped) :
                                 /\ stripped[k] = "/"
                                 /\ \A j \in 1..(k - 1) : stripped[j] # "/") - 1)
    ELSE stripped

\* a response of the application itself, and one that passes on what Fava
\* answered to the request for path
Response(status_code) == [forwarded |-> FALSE, status_code |-> status_code, path |-> <<>>]
ForwardTo(path) == [forwarded |-> TRUE, status_code |-> 0, path |-> path]

\* _proxy_fava_path
ProxyFavaPath(enabled, target_path, enforce_user) ==
    LET stripped == StripSlashes(target_path)
        ends_with_slash == target_path # <<>> /\ target_path[Len(target_path)] = "/"
        leading_segment == LeadingSegment(stripped)
        enforced == IF stripped = <<>> THEN <<enforce_user>> ELSE stripped
        trailing_slash ==
            \/ stripped = <<>>
            \/ ends_with_slash
            \/ leading_segment = <<enforce_user>> /\ ~Contains(stripped, <<"/">>)
        normalized_path == IF trailing_slash THEN enforced \o <<"/">> ELSE enforced
    IN  IF ~enabled THEN Response(404)
        ELSE IF stripped # <<>> /\ leading_segment # <<enforce_user>>
        THEN Response(403)
        ELSE ForwardTo(normalized_path)

\* proxy_fava_root and income_statement
ProxyReport(enabled, session_user, report) ==
    IF session_user = NoSession THEN Response(401)
    ELSE ProxyFavaPath(enabled, <<session_user, "/">> \o report, session_user)

\* proxy_fava_static
ProxyFavaStatic(asset_path) == ForwardTo(<<"static", "/">> \o asset_path)

\* proxy_fava_catch_all
ProxyFavaCatchAll(enabled, session_user, full_path) ==
    LET stripped == StripSlashes(full_path)
    IN  IF full_path = <<>> THEN Response(302)
        ELSE IF session_user = NoSession THEN Response(302)
        ELSE IF LeadingSegment(stripped) # <<session_user>> THEN Response(302)
        ELSE ProxyFavaPath(enabled, stripped, session_user)

\* the route that takes the request: the first one, in the order of the
\* file, whose path and method match
Route(method, path) ==
    IF method = "GET" /\ path = <<"healthz">> THEN "healthcheck"
    ELSE IF method = "GET" /\ path = <<>> THEN "home"
    ELSE IF method = "GET" /\ path = <<"auth", "/", "telegram">> THEN "telegram_auth"
    ELSE IF method = "GET" /\ path = <<"logout">> THEN "logout"
    ELSE IF method = "POST" /\ path = <<"telegram", "/", "webhook">> THEN "telegram_webhook"
    ELSE IF method = "GET" /\ path = <<"reports", "/", "fava">> THEN "proxy_fava_root"
    ELSE IF method = "GET" /\ path = <<"reports", "/", "income-statement">>
    THEN "income_statement"
    ELSE IF method = "GET" /\ IsPrefix(<<"static", "/">>, path) THEN "proxy_fava_static"
    ELSE "proxy_fava_catch_all"

\* the response of the application to a request
Respond(enabled, session_user, method, path) ==
    LET route == Route(method, path)
    IN  IF route = "proxy_fava_root" THEN ProxyReport(enabled, session_user, <<>>)
        ELSE IF route = "income_statement"
        THEN ProxyReport(enabled, session_user, <<"income_statement", "/">>)
        ELSE IF route = "proxy_fava_static"
        THEN ProxyFavaStatic(SubSeq(path, 3, Len(path)))
        ELSE IF route = "proxy_fava_catch_all"
        THEN ProxyFavaCatchAll(enabled, session_user, path)
        ELSE IF route \in {"telegram_auth", "logout"} THEN Response(302)
        ELSE Response(200)

RequestPaths ==
    {<<>>, <<"healthz">>, <<"logout">>, <<"auth", "/", "telegram">>,
     <<"telegram", "/", "webhook">>,
     <<"reports", "/", "fava">>, <<"reports", "/", "income-statement">>,
     <<"static", "/", "a">>, <<"static", "/">>,
     <<"1">>, <<"1", "/">>, <<"1", "/", "income_statement">>,
     <<"2", "/", "income_statement", "/">>, <<"/", "2", "/", "x">>,
     <<"2", "/", "1">>, <<"1", "/", "/", "2">>, <<"x">>}

InitRoutes ==
    /\ book = NoSession
    /\ call = NoCall
    /\ result = NoCall
    /\ started = 0
    /\ hist = <<>>
    /\ ledger = [u \in Users |-> AbsentFile]
    /\ ledger0 = ledger
    /\ pending = [p \in PendingIds |-> NoRow]
    /\ task = EmptyBag
    /\ appended = [p \in PendingIds |-> 0]
    /\ arg = <<>>

\* a request arrives; telegram_auth with a payload Telegram signed puts its
\* user in the session, logout clears the session
Request ==
    /\ \E method \in {"GET", "POST"}, path \in RequestPaths, enabled \in BOOLEAN,
          user \in SessionUsers :
          LET route == Route(method, path)
              changes == route \in {"telegram_auth", "logout"}
          IN  /\ changes => started < MaxRequests
              /\ started' = IF changes THEN started + 1 ELSE started
              /\ book' = IF route = "telegram_auth" THEN user
                         ELSE IF route = "logout" THEN NoSession
                         ELSE book
              /\ call' = [method |-> method, path |-> path, route |-> route,
                          session_user |-> book]
              /\ result' = Respond(enabled, book, method, path)
    /\ UNCHANGED <<hist, ledger, ledger0, pending, task, appended, arg>>

NextRoutes == Request

SpecRoutes == InitRoutes /\ [][NextRoutes]_vars

-----------------------------------------------------------------------------
(* Properties of the commit workflow *)

\* the text of the entries of a handler or row, as append_entries writes it
EntriesText(entries) == Join(<<NL, NL>>, CleanedEntries(entries))

LedgerValidAtStart == \A u \in Users : ValidateLedger(ledger0[u]) = <<>>

\* C1. Rollback atomicity: when an accept whose validation found errors
\* returns, and nothing else ran on the ledger since its snapshot (requests
\* are handled one at a time), the ledger text equals the text the file held
\* when the snapshot was read, an absent file counting as empty text.
C1_RollbackAtomicity ==
    [][\A me \in Running :
          SetError(me) =>
             /\ me.errors # <<>>
             /\ ReadOrEmpty(ledger'[me.user]) = ReadOrEmpty(me.pre)]_vars

\* a failed commit on a ledger with trailing blank lines has rolled back
C1_Witness ==
    \E me \in Running :
        /\ me.pc = "set_error"
        /\ me.pre = File(<<"p", NL, NL, NL>>)
        /\ ledger[me.user] = me.pre
        /\ me.entries = <<X>>

\* C2. Ledger validity: from ledgers that are absent, empty or parse without
\* error, with requests handled one at a time, every ledger parses without
\* error in every state in which no commit is between its append and the end
\* of its validation or rollback.
C2_LedgerValidity ==
    (LedgerValidAtStart /\ \A me \in Running : me.pc \notin {"validate", "rollback"})
        => \A u \in Users : ValidateLedger(ledger[u]) = <<>>

\* one commit has failed and been rolled back, another is in the ledger
C2_Witness ==
    /\ LedgerValidAtStart
    /\ task = EmptyBag
    /\ \E p \in PendingIds, q \in PendingIds :
          /\ pending[p].status = "accepted"
          /\ pending[q].status = "error"
          /\ Contains(ReadOrEmpty(ledger["u1"]), EntriesText(pending[p].entries))
          /\ ledger["u1"] # ledger0["u1"]

\* C3. Commit outcome: an accept ends 'accepted' exactly when the validation
\* found no error, and then its entries are in the ledger; it ends 'error'
\* exactly when the validation found errors, and then the ledger holds the
\* snapshot.
C3_CommitOutcome ==
    [][\A me \in Running :
          /\ SetAccepted(me) =>
                /\ me.errors = <<>>
                /\ Contains(ReadOrEmpty(ledger'[me.user]), EntriesText(me.entries))
          /\ SetError(me) =>
                /\ me.errors # <<>>
                /\ ReadOrEmpty(ledger'[me.user]) = me.previous_content]_vars

\* C4. Check-then-set: the texts of a pending entry are appended at most once
\* while the entry is pending, also when two accepts of it run concurrently.
C4_AppendedAtMostOnce == \A p \in PendingIds : appended[p] <= 1

\* C5. Per-user serialization: when no request is in flight, the ledger of
\* the owner holds the entries of every accepted row, and of no row in status
\* 'error' (unless the same text was in the ledger at start or belongs to an
\* accepted row as well).
C5_SerialOutcome ==
    (task = EmptyBag /\ LedgerValidAtStart) =>
        \A p \in PendingIds :
            LET text == EntriesText(pending[p].entries)
                now == ReadOrEmpty(ledger[pending[p].owner])
            IN  /\ pending[p].status = "accepted" => Contains(now, text)
                /\ (/\ pending[p].status = "error"
                    /\ \A q \in PendingIds :
                          pending[q].status = "accepted" => pending[q].entries # pending[p].entries)
                      => ~Contains(now, text)

\* C6. No visible partial commit: no summarize_accounts has loaded the
\* entries of a commit that was then rolled back.
C6_NoPartialCommitRead ==
    \A me \in Running : me.pc = "set_error" => ~me.exposed

-----------------------------------------------------------------------------
(* Properties of append_entries *)

AllBlank(entries) ==
    \A i \in 1..Len(entries) : \A k \in 1..Len(entries[i]) : entries[i][k] \in Whitespace

\* C7. Idempotent empty append: append_entries with no entry, or blank
\* entries only, changes at most the run of trailing newlines of the text,
\* and a second call changes nothing.
C7_EmptyAppend ==
    AllBlank(arg) =>
        \A i \in 2..Len(hist) :
            /\ RStripChars(hist[i].content, {NL}) = RStripChars(ReadOrEmpty(hist[1]), {NL})
            /\ i > 2 => hist[i] = hist[i - 1]

\* blank entries were appended twice to a text with no final newline
C7_Witness ==
    /\ AllBlank(arg)
    /\ arg # <<>>
    /\ Len(hist) = 3
    /\ hist[1] = File(<<"p", SP>>)
    /\ hist[2] = File(<<"p", SP, NL>>)

\* C8. Append composition: with at least one non-blank entry the text written
\* is the right-trimmed existing text and a blank line (nothing when the
\* existing text is blank), the normalized entries joined by one blank line,
\* and one newline; it ends in one newline after a non-whitespace character.
C8_AppendComposition ==
    ~AllBlank(arg) =>
        \A i \in 2..Len(hist) :
            LET before == RStrip(ReadOrEmpty(hist[i - 1]))
                after == hist[i].content
            IN  /\ after = (IF before = <<>> THEN <<>> ELSE before \o <<NL, NL>>)
                              \o EntriesText(arg) \o <<NL>>
                /\ Len(after) >= 2
                /\ after[Len(after)] = NL
                /\ after[Len(after) - 1] \notin Whitespace

\* two entries were appended to a text that ended in whitespace
C8_Witness ==
    /\ Len(hist) >= 2
    /\ Len(CleanedEntries(arg)) = 2
    /\ hist[1] = File(<<"p", SP>>)
    /\ hist[2].content = <<"p", NL, NL>> \o EntriesText(arg) \o <<NL>>

\* C10. No deduplication: after two calls with the same non-blank entries the
\* text is that after the first call, which ends with the entries, followed
\* by a blank line and the entries again.
C10_TwoCopies ==
    (~AllBlank(arg) /\ Len(hist) >= 3) =>
        LET first == hist[2].content
            second == hist[3].content
            text == EntriesText(arg) \o <<NL>>
        IN  /\ Len(first) >= Len(text)
            /\ SubSeq(first, Len(first) - Len(text) + 1, Len(first)) = text
            /\ second = first \o <<NL>> \o text

\* the same entry was appended twice to a ledger that had text
C10_Witness ==
    /\ Len(hist) = 3
    /\ arg = <<<<"t">>>>
    /\ hist[1] = File(<<"p", NL>>)
    /\ hist[3] = File(<<"p", NL, NL, "t", NL, NL, "t", NL>>)

-----------------------------------------------------------------------------
(* Properties of posting_exists *)

\* the postings of the ledger on the account with the amount or its negation,
\* of the currency when one is given, in a transaction of one of the dates
HasPosting(entries, account_name, number, currency, dates) ==
    \E i \in 1..Len(entries) : \E k \in 1..Len(entries[i].postings) :
        LET posting == entries[i].postings[k]
        IN  /\ entries[i].date \in dates
            /\ posting.units # NoUnits
            /\ posting.account = account_name
            /\ (Truthy(currency) => posting.units.currency = currency)
            /\ posting.units.number \in {number, 0 - number}

PostingExistsCalled == call # NoCall /\ call.method = "posting_exists"

\* C11. Duplicate symmetry: posting_exists returns for the amount -X what it
\* returned for X, on the same ledger, account, currency and date.
C11_DuplicateSymmetry ==
    PostingExistsCalled =>
        result = PostingExists(ledger["u1"], book, call.account_name,
                               NegatedArg(call.amount), call.currency, call.date_str)

\* posting_exists found the posting of -1.00 for the amount 1.00
C11_Witness ==
    /\ PostingExistsCalled
    /\ result = [raised |-> FALSE, value |-> TRUE]
    /\ call.amount = Number("Decimal", 100)
    /\ \A i \in 1..Len(book) : \A k \in 1..Len(book[i].postings) :
          book[i].postings[k].units # NoUnits => book[i].postings[k].units.number = 0 - 100

\* C12. Date filter: when a date string is supplied, posting_exists returns
\* true only if a transaction of exactly that date has a posting matching
\* the account and the amount.
C12_DateFilter ==
    (/\ PostingExistsCalled
     /\ call.date_str.form \notin {"None", "empty"}
     /\ ~result.raised
     /\ result.value)
        => HasPosting(book, call.account_name, ToDecimal(call.amount).value,
                      call.currency, {call.date_str.day})

\* C13 as claimed. posting_exists returns true exactly when the ledger has a
\* posting of the account, of the currency when one is given, with the amount
\* or its negation; false when the file is absent or empty.
C13_ResultAnyDate ==
    (PostingExistsCalled /\ ~result.raised) =>
        /\ result.value <=> HasPosting(book, call.account_name, ToDecimal(call.amount).value,
                                       call.currency, Days)
        /\ NoLedger(ledger["u1"]) => ~result.value

\* C13 as amended. ... and, when a date string is supplied that parses as an
\* ISO date, in a transaction of that date.
C13_ResultOnDate ==
    (PostingExistsCalled /\ ~result.raised) =>
        /\ result.value <=>
              HasPosting(book, call.account_name, ToDecimal(call.amount).value, call.currency,
                         IF call.date_str.form \in {"iso", "iso_time"}
                         THEN {call.date_str.day} ELSE Days)
        /\ NoLedger(ledger["u1"]) => ~result.value

\* with a date, the posting of another day was passed over and that of the day found
C13_Witness ==
    /\ PostingExistsCalled
    /\ result = [raised |-> FALSE, value |-> TRUE]
    /\ call.date_str = [form |-> "iso", day |-> 2]
    /\ call.currency = "EUR"
    /\ Len(book) = 2
    /\ book[1].date = 1 /\ book[1].postings = <<Posting(call.account_name, USD100)>>
    /\ book[2].date = 2 /\ book[2].postings = <<Posting(call.account_name, EUR100)>>

-----------------------------------------------------------------------------
(* Properties of history_records *)

\* the transactions history_records counts
Qualifies(entry) ==
    /\ Len(entry.postings) >= 2
    /\ Description(entry) # <<>>
    /\ \E k \in 1..Len(entry.postings) : StartsWithLedgerRoot(entry.postings[k].account)
    /\ \E k \in 1..Len(entry.postings) : ~StartsWithLedgerRoot(entry.postings[k].account)

KeyOf(entry) == NormalizeDescription(Description(entry))

\* the first ledger-side account and the first counterparty account
PairOf(entry) ==
    LET L == {k \in 1..Len(entry.postings) : StartsWithLedgerRoot(entry.postings[k].account)}
        C == (1..Len(entry.postings)) \ L
    IN  <<entry.postings[CHOOSE k \in L : \A j \in L : k <= j].account,
          entry.postings[CHOOSE k \in C : \A j \in C : k <= j].account>>

\* the counted transactions of a key
Counted(key) == {i \in 1..Len(book) : Qualifies(book[i]) /\ KeyOf(book[i]) = key}

HistoryRecordsCalled == call # NoCall /\ call.method = "history_records"

\* C14. History pair counting: every key of a counted transaction has one
\* record; pair_counts[(L, C)] is the number of transactions of the key with
\* first ledger-side account L and first counterparty account C, last_date
\* is the latest date of the key's transactions, and description is the text
\* of one of them that carries that date.
C14_PairCounting ==
    HistoryRecordsCalled =>
        /\ \A i \in 1..Len(book) :
              Qualifies(book[i]) =>
                 \E r \in 1..Len(result) :
                    /\ result[r].normalized = KeyOf(book[i])
                    /\ \E k \in 1..Len(result[r].pair_counts) :
                          result[r].pair_counts[k].pair = PairOf(book[i])
        /\ \A r \in 1..Len(result), q \in 1..Len(result) :
              r # q => result[r].normalized # result[q].normalized
        /\ \A r \in 1..Len(result) :
              LET rec == result[r]
                  of_key == Counted(rec.normalized)
              IN  /\ \A k \in 1..Len(rec.pair_counts), j \in 1..Len(rec.pair_counts) :
                        k # j => rec.pair_counts[k].pair # rec.pair_counts[j].pair
                  /\ \A k \in 1..Len(rec.pair_counts) :
                        rec.pair_counts[k].count =
                           Cardinality({i \in of_key : PairOf(book[i]) = rec.pair_counts[k].pair})
                  /\ \A i \in of_key : book[i].date <= rec.last_date
                  /\ \E i \in of_key :
                        /\ book[i].date = rec.last_date
                        /\ Description(book[i]) = rec.description

\* one key was seen three times: a pair twice, another once, the text changing
C14_Witness ==
    /\ HistoryRecordsCalled
    /\ Len(result) = 1
    /\ result[1].description = <<"a">>
    /\ result[1].last_date = 2
    /\ result[1].pair_counts = <<[pair |-> <<CASH, FOOD>>, count |-> 2],
                                 [pair |-> <<CARD, JOB>>, count |-> 1]>>
    /\ Description(book[1]) = <<"A">>

\* C15. History classification: in every record each pair has a ledger-side
\* account beginning with Assets or Liabilities and a counterparty account
\* beginning with neither, each count is at least 1, and the record is that of
\* a described transaction with two postings or more and both classes.
C15_Classification ==
    HistoryRecordsCalled =>
        \A r \in 1..Len(result) :
            /\ result[r].normalized # <<>>
            /\ Counted(result[r].normalized) # {}
            /\ result[r].pair_counts # <<>>
            /\ \A k \in 1..Len(result[r].pair_counts) :
                  LET item == result[r].pair_counts[k]
                  IN  /\ StartsWithLedgerRoot(item.pair[1])
                      /\ ~StartsWithLedgerRoot(item.pair[2])
                      /\ item.count >= 1

\* of three directives only the one with both classes made a record
C15_Witness ==
    /\ HistoryRecordsCalled
    /\ Len(book) = 3
    /\ Accounts(book[1]) = <<CASH, CARD>>
    /\ Accounts(book[2]) = <<FOOD, JOB>>
    /\ Accounts(book[3]) = <<JOB, CARD, CASH>>
    /\ Len(result) = 1
    /\ result[1].pair_counts = <<[pair |-> <<CARD, JOB>>, count |-> 1]>>

-----------------------------------------------------------------------------
(* Properties of _select_top_pair and _match_history_keys *)

SelectTopPairCalled == call # NoCall /\ call.method = "_select_top_pair"

\* C16. Ledger-preference tie-break: with a preferred ledger account that
\* some pair has as its ledger-side leg, _select_top_pair returns such a pair
\* of the largest count among them, whatever the counts of the other pairs;
\* otherwise a pair of the largest count of all; (None, 0) without pairs.
C16_LedgerPreference ==
    SelectTopPairCalled =>
        LET items == call.record.pair_counts
            all == 1..Len(items)
            preferred == {k \in all : call.ledger_account # NoAccount
                                         /\ items[k].pair[1] = call.ledger_account}
            among == IF preferred # {} THEN preferred ELSE all
        IN  IF items = <<>> THEN result = [pair |-> NoPair, count |-> 0]
            ELSE /\ \E k \in among : items[k] = result
                 /\ \A k \in among : items[k].count <= result.count

\* the preferred pair, counted once, was taken before a pair counted three times
C16_Witness ==
    /\ SelectTopPairCalled
    /\ call.ledger_account = CARD
    /\ call.record.pair_counts = <<[pair |-> <<CASH, FOOD>>, count |-> 3],
                                   [pair |-> <<CARD, FOOD>>, count |-> 1]>>
    /\ result = [pair |-> <<CARD, FOOD>>, count |-> 1]

MatchHistoryKeysCalled == call # NoCall /\ call.method = "_match_history_keys"

\* the places of the keys that contain the query or are contained in it
Related(query, keys) ==
    {k \in 1..Len(keys) : Contains(keys[k], query) \/ Contains(query, keys[k])}

\* C17. Matching cascade: _match_history_keys returns [query] when the query
\* is a key; when it is not, all keys in a substring relation with it, in key
\* order, if there are any; otherwise at most 3 keys; always keys of the set.
C17_MatchingCascade ==
    MatchHistoryKeysCalled =>
        LET query == call.query
            keys == call.keys
            related == Related(query, keys)
            Place(key) == CHOOSE k \in 1..Len(keys) : keys[k] = key
        IN  /\ \A a \in 1..Len(result) : \E k \in 1..Len(keys) : keys[k] = result[a]
            /\ IF \E k \in 1..Len(keys) : keys[k] = query THEN result = <<query>>
               ELSE IF related # {}
               THEN /\ {Place(result[a]) : a \in 1..Len(result)} = related
                    /\ \A a \in 1..Len(result), b \in 1..Len(result) :
                          a < b => Place(result[a]) < Place(result[b])
               ELSE Len(result) <= 3

\* the query is a key and has other keys as substrings: it alone is returned
C17_Witness ==
    /\ MatchHistoryKeysCalled
    /\ call.query = <<"a", "b">>
    /\ call.keys = <<<<"a">>, <<"a", "b">>, <<"b">>>>
    /\ result = <<<<"a", "b">>>>

-----------------------------------------------------------------------------
(* Properties of summarize_accounts and list_accounts *)

AccountsCalled == call # NoCall /\ call.method \in {"summarize_accounts", "list_accounts"}

\* C19. Summary emptiness: on a ledger file that is absent or of size zero
\* summarize_accounts returns ([], []) and list_accounts returns [], and the
\* file is as it was: not created, not written.
C19_SummaryEmptiness ==
    AccountsCalled =>
        LET before == hist[Len(hist) - 1]
        IN  (~before.exists \/ before.content = <<>>) =>
                /\ call.method = "summarize_accounts" => result = [lines |-> <<>>, errors |-> <<>>]
                /\ call.method = "list_accounts" => result = <<>>
                /\ hist[Len(hist)] = before
                /\ ledger["u1"] = before

\* two calls where no file is; the second, summarize_accounts, left none
C19_Witness ==
    /\ AccountsCalled
    /\ hist = <<AbsentFile, AbsentFile, AbsentFile>>
    /\ call.method = "summarize_accounts"
    /\ result = [lines |-> <<>>, errors |-> <<>>]
    /\ ledger["u1"] = AbsentFile

-----------------------------------------------------------------------------
(* Properties of suggest_counter_account and transaction_history_summary *)

SuggestCalled == call # NoCall /\ call.method = "suggest_counter_account"

\* C18. Counter-account suggestion: suggest_counter_account returns the
\* counterparty leg of the top pair (preferring the ledger account) of the
\* first candidate whose top pair has count at least min_count; None when the
\* history is empty, no key matches or no candidate reaches min_count.
C18_Suggestion ==
    SuggestCalled =>
        LET records == BuildHistoryRecords(ledger["u1"], book)
            Top(key) == SelectTopPair(records[RecordIndex(records, key)],
                                      Strip(call.ledger_account))
            reaching == {k \in 1..Len(call.candidates) :
                            Top(call.candidates[k]).count >= call.min_count}
        IN  IF records = <<>> \/ call.candidates = <<>> \/ reaching = {}
            THEN result = NoAccount
            ELSE LET first == CHOOSE k \in reaching : \A j \in reaching : k <= j
                 IN  result = Top(call.candidates[first]).pair[2]

\* the first candidate's top pair was seen once, min_count is 2: the second gave the answer
C18_Witness ==
    /\ SuggestCalled
    /\ call.min_count = 2
    /\ call.ledger_account = NoAccount
    /\ call.candidates = <<<<"a">>, <<"b">>>>
    /\ LET records == BuildHistoryRecords(ledger["u1"], book)
       IN  /\ Len(records) = 2
           /\ records[1].pair_counts = <<[pair |-> <<CASH, FOOD>>, count |-> 1]>>
           /\ records[2].pair_counts = <<[pair |-> <<CARD, JOB>>, count |-> 2]>>
    /\ result = JOB

SummaryCalled == call # NoCall /\ call.method = "transaction_history_summary"

\* C20. History summary: for limit >= 0 transaction_history_summary returns
\* min(limit, number of records) lines, one per record, by last_date
\* descending, of the records with the latest dates; each line shows the
\* record's top pair, its last date and the sum of its pair counts.
C20_SummaryOrderAndSize ==
    (SummaryCalled /\ call.limit >= 0) =>
        LET records == BuildHistoryRecords(ledger["u1"], book)
            shown == {records[r].description : r \in 1..Len(records)}
            Of(line) == records[CHOOSE r \in 1..Len(records) :
                                   records[r].description = line.description]
        IN  /\ Len(result) = (IF call.limit < Len(records) THEN call.limit ELSE Len(records))
            /\ \A a \in 1..Len(result) : result[a].description \in shown
            /\ \A a \in 1..Len(result), b \in 1..Len(result) :
                  a < b => /\ result[a].description # result[b].description
                           /\ result[a].last_date >= result[b].last_date
            /\ \A a \in 1..Len(result), r \in 1..Len(records) :
                  (\A b \in 1..Len(result) : result[b].description # records[r].description)
                     => records[r].last_date <= result[a].last_date
            /\ \A a \in 1..Len(result) :
                  LET rec == Of(result[a])
                      top == SelectTopPair(rec, NoAccount)
                  IN  /\ result[a].last_date = rec.last_date
                      /\ result[a].ledger_account = top.pair[1]
                      /\ result[a].counter_account = top.pair[2]
                      /\ result[a].pair_count = top.count
                      /\ result[a].total_seen = Cardinality(Counted(rec.normalized))

\* with limit 1 the record seen last, second in the dict, is the one shown
C20_Witness ==
    /\ SummaryCalled
    /\ call.limit = 1
    /\ LET records == BuildHistoryRecords(ledger["u1"], book)
       IN  /\ Len(records) = 2
           /\ records[1].last_date = 1
           /\ records[2].last_date = 2
           /\ Len(result) = 1
           /\ result[1].description = records[2].description
           /\ result[1].total_seen = 2

-----------------------------------------------------------------------------
(* Properties of the pending entries *)

\* the user a handler works for: the sender of /accounts, the owner of the
\* pending entry of a callback
ActsFor(me, u) ==
    IF me.kind = "accounts" THEN me.from = u ELSE pending[me.pid].owner = u

\* C21. Cross-user isolation: a step changes the ledger of a user only as a
\* write of a handler that works for that user, also when handlers of several
\* users run concurrently; an accept writes the ledger of the owner of its
\* pending entry, who sent it.
C21_CrossUserIsolation ==
    [][\A u \in Users :
          ledger'[u] # ledger[u] =>
             \E me \in Running :
                /\ AppendWrite(me) \/ Rollback(me) \/ SumWrite(me)
                /\ ActsFor(me, u)
                /\ me.user = u
                /\ me.kind = "accept" => me.from = u]_vars

\* the commits of two users are under way at once, each in its own ledger
C21_Witness ==
    /\ \A u \in Users : ledger[u] # ledger0[u]
    /\ \E a \in Running, b \in Running :
          /\ a.kind = "accept" /\ a.user = "u1" /\ a.pc = "validate"
          /\ b.kind = "accept" /\ b.user = "u2" /\ b.pc = "validate"

\* C22. Error context on error: a pending entry in status 'error' has a
\* non-empty error context, by whichever path it reached that status.
C22_ErrorHasContext ==
    \A p \in PendingIds : pending[p].status = "error" => pending[p].error_context # "none"

ReportCalled == call # NoCall /\ call.method = "error_context"

\* what a line shows of an error: its line number and message where the
\* patterns find them, "?" and the whole text where they do not
Shows(line, error_text) ==
    /\ line.lineno = (IF error_text.lineno = "" THEN "?" ELSE error_text.lineno)
    /\ line.message = (IF error_text.message = "" THEN error_text.text ELSE error_text.message)

\* C23 as claimed. Complete error report: the error context of a failed commit
\* has one line per validation error, whatever their number.
C23_OneLinePerError ==
    ReportCalled =>
        /\ Len(result.error_summary) = Len(arg)
        /\ \A k \in 1..Len(arg) : Shows(result.error_summary[k], arg[k])

\* C23 as amended. The error context has one line for each of the first five
\* validation errors, in their order, and none for the others.
C23_FirstFiveErrors ==
    ReportCalled =>
        /\ Len(result.error_summary) = (IF Len(arg) < 5 THEN Len(arg) ELSE 5)
        /\ \A k \in 1..Len(result.error_summary) : Shows(result.error_summary[k], arg[k])

\* six errors made five lines, the second without line number or message
C23_Witness ==
    /\ ReportCalled
    /\ Len(arg) = 6
    /\ Len(result.error_summary) = 5
    /\ result.error_summary[1] = [lineno |-> "3", message |-> "m"]
    /\ result.error_summary[2] = [lineno |-> "?", message |-> "exception"]

-----------------------------------------------------------------------------
(* Properties of StatementExtractor.extract *)

ExtractReturned == call # NoCall /\ call.method = "extract" /\ ~result.raised

\* C24 as claimed. Allowed-accounts validation: extract returns a statement
\* only if its ledger account and the debit and credit accounts of all its
\* transactions are among the accounts listed for the ledger, with the ledger
\* account as debit of every negative and as credit of every positive amount.
C24_AllowedAccounts ==
    ExtractReturned =>
        LET allowed == {arg.allowed_accounts[k] : k \in 1..Len(arg.allowed_accounts)}
            statement == result.value
        IN  /\ statement.ledger_account \in allowed
            /\ \A k \in 1..Len(statement.transactions) :
                  LET txn == statement.transactions[k]
                  IN  /\ txn.debit \in allowed
                      /\ txn.credit \in allowed
                      /\ txn.amount < 0 => txn.debit = statement.ledger_account
                      /\ txn.amount > 0 => txn.credit = statement.ledger_account

\* C24 as amended. ... the names being compared after their surrounding
\* whitespace is trimmed.
C24_AllowedAccountsTrimmed ==
    ExtractReturned =>
        LET allowed == {Strip(arg.allowed_accounts[k]) : k \in 1..Len(arg.allowed_accounts)}
            statement == result.value
        IN  /\ Strip(statement.ledger_account) \in allowed
            /\ \A k \in 1..Len(statement.transactions) :
                  LET txn == statement.transactions[k]
                  IN  /\ Strip(txn.debit) \in allowed
                      /\ Strip(txn.credit) \in allowed
                      /\ txn.amount < 0 => Strip(txn.debit) = Strip(statement.ledger_account)
                      /\ txn.amount > 0 => Strip(txn.credit) = Strip(statement.ledger_account)

\* a statement of a payment and a receipt was returned, newest first reversed
C24_Witness ==
    /\ ExtractReturned
    /\ arg.statement.ledger_account = CASH
    /\ arg.statement.transactions = <<[amount |-> 0 - 1, debit |-> CASH, credit |-> FOOD],
                                      [amount |-> 1, debit |-> FOOD, credit |-> CASH]>>
    /\ result.value.transactions = <<[amount |-> 1, debit |-> FOOD, credit |-> CASH],
                                     [amount |-> 0 - 1, debit |-> CASH, credit |-> FOOD]>>

\* handler me commits or rolls back an entry of u that u accepted
CommitStep(me, u) ==
    /\ me.kind = "accept"
    /\ me.from = u
    /\ pending[me.pid].owner = u
    /\ AppendWrite(me) \/ Rollback(me)

\* the check of lines 608-629 lets handler me go on
PassesCheck(me) == GetPending(me) /\ task' # Return(me)

\* C25. Human confirmation: a ledger changes only by the append or rollback of
\* an accept sent by its user for an entry that user owns, which was 'pending'
\* when checked, or by the newline normalization of summarize_accounts, which
\* adds nothing; creating, rejecting or auto-fixing a proposal adds no entries.
C25_HumanConfirmation ==
    [][/\ \A u \in Users :
             ledger'[u] # ledger[u] =>
                 \E me \in Running : CommitStep(me, u) \/ (me.user = u /\ SumWrite(me))
       /\ \A me \in Running :
             me.kind = "accept" /\ PassesCheck(me) =>
                 pending[me.pid].status = "pending" /\ pending[me.pid].owner = me.from
       /\ \A me \in Running :
             SumWrite(me) =>
                 IsPrefix(RStrip(ledger'[me.user].content), ledger[me.user].content)]_vars

\* u2's proposal was created and u1's was accepted: only u1's ledger changed
C25_Witness ==
    /\ task = EmptyBag
    /\ pending[2].status = "pending"
    /\ pending[2].owner = "u2"
    /\ pending[1].status = "accepted"
    /\ ledger["u1"] # ledger0["u1"]
    /\ ledger["u2"] = ledger0["u2"]

\* how often needle occurs in s
Occurrences(s, needle) ==
    Cardinality({i \in 1..(Len(s) + 1 - Len(needle)) : SubSeq(s, i, i + Len(needle) - 1) = needle})

\* the texts of entry p as append_entries writes them
EntryText(p) == Join(<<NL, NL>>, CleanedEntries(pending[p].entries))

\* the texts of entry p are in the ledger of its owner, put there by an
\* append of the entry: the ledger holds them more often than at the start,
\* and no other entry with the same texts was appended to that ledger
EntriesInLedger(p) ==
    /\ appended[p] > 0
    /\ Occurrences(ReadOrEmpty(ledger[pending[p].owner]), EntryText(p))
          > Occurrences(ReadOrEmpty(ledger0[pending[p].owner]), EntryText(p))
    /\ \A q \in PendingIds \ {p} :
          \/ appended[q] = 0
          \/ pending[q].owner # pending[p].owner
          \/ EntryText(q) # EntryText(p)

\* C26. Commit completion: an accept by the owner of a pending entry, once its
\* handler is over, also by an exception raised in one of its steps, leaves the
\* entry 'accepted' or 'error'; no entry stays 'pending' with its entries
\* appended to the ledger.
C26_CommitCompletion ==
    /\ [][\A me \in Running :
             me.kind = "accept" /\ me.pc # "get" /\ task' = Return(me) =>
                 pending'[me.pid].status \in {"accepted", "error"}]_vars
    /\ [](task = EmptyBag =>
             \A p \in PendingIds : ~(pending[p].status = "pending" /\ EntriesInLedger(p)))

Statuses == {"pending", "accepted", "rejected", "error"}
Terminal == {"accepted", "rejected"}

Transitions ==
    {<<"pending", "accepted">>, <<"pending", "rejected">>, <<"pending", "error">>, <<"error", "pending">>}

C28_RejectedNeverWritten ==
    task = EmptyBag =>
        \A p \in PendingIds :
            /\ pending[p].status = "rejected" => ~EntriesInLedger(p)
            /\ EntriesInLedger(p) => pending[p].status = "accepted"

\* C29. Owner-only actions: with callbacks handled one at a time, the handler
\* of an accept, reject or autofix callback sent by a user who does not own the
\* entry changes neither the entry nor a ledger and does not reach the LLM call.
C29_OwnerOnly ==
    [][\A me \in Running :
          me.kind \in CallbackKinds /\ me.from # pending[me.pid].owner =>
              /\ pending' = pending
              /\ ledger' = ledger
              /\ \A t \in BagToSet(task') : t.pc # "llm"]_vars

\* C30. Reject after a failed commit: with callbacks handled one at a time,
\* when the handler of a reject callback sent by the owner of an entry in
\* status 'error' returns, the entry is 'rejected'.
C30_RejectAfterError ==
    [][\A me \in Running :
          /\ me.kind = "reject"
          /\ me.from = pending[me.pid].owner
          /\ pending[me.pid].status = "error"
          /\ task' = Return(me)
          => pending'[me.pid].status = "rejected"]_vars

-----------------------------------------------------------------------------
(* Properties of auto-fix *)

\* what an autofix handler checks and what its UPDATE writes
AutofixRow(me) ==
    /\ PassesCheck(me) =>
           pending[me.pid].status = "error" /\ pending[me.pid].error_context # "none"
    /\ AutofixApply(me) =>
           /\ pending'[me.pid].status = "pending"
           /\ pending'[me.pid].entries \in EntryPool
           /\ pending'[me.pid].error_context = "none"
           /\ \A q \in PendingIds \ {me.pid} : pending'[q] = pending[q]

NoContextWhilePending ==
    \A p \in PendingIds : pending[p].status = "pending" => pending[p].error_context = "none"

\* C31 as claimed. Auto-fix effect: with callbacks handled one at a time, an
\* autofix handler goes on only for an entry in status 'error' with an error
\* context; on the LLM's answer it sets 'pending', new texts and no context;
\* no step of it changes a ledger; a pending entry has no error context.
C31_AutofixEffect ==
    /\ [][\A me \in Running :
             me.kind = "autofix" => AutofixRow(me) /\ ledger' = ledger]_vars
    /\ []NoContextWhilePending

\* C31 as amended. ... no step of it changes a ledger other than by the
\* newline normalization of summarize_accounts on the ledger of the entry's
\* owner ...
C31_AutofixEffectNormalizing ==
    /\ [][\A me \in Running :
             me.kind = "autofix" =>
                 /\ AutofixRow(me)
                 /\ \A u \in Users :
                       \/ ledger'[u] = ledger[u]
                       \/ /\ u = pending[me.pid].owner
                          /\ ledger'[u] = File(ComposeContent(ledger[u].content, <<>>))]_vars
    /\ []NoContextWhilePending

\* a commit of u1 failed on the absent ledger and was rolled back, the entry
\* was auto-fixed: every entry is pending again
C31_Witness ==
    /\ task = EmptyBag
    /\ ~ledger0["u1"].exists
    /\ ledger["u1"] = File(<<>>)
    /\ \A p \in PendingIds : pending[p].status = "pending" /\ pending[p].error_context = "none"

\* the entry of handler me can be auto-fixed
Fixable(row) == row.status = "error" /\ row.error_context # "none"

\* C32 as claimed. Auto-fix failure leaves state unchanged: with callbacks
\* handled one at a time, up to and including the failure of its LLM call an
\* autofix handler changes neither an entry nor a ledger, and the entry is
\* left in status 'error' with its error context.
C32_AutofixFailure ==
    [][\A me \in Running :
          me.kind = "autofix" /\ ~AutofixApply(me) =>
              /\ pending' = pending
              /\ ledger' = ledger
              /\ AutofixFail(me) => Fixable(pending'[me.pid])]_vars

\* C32 as amended. ... changes no entry, and no ledger other than by the
\* newline normalization of summarize_accounts on the ledger of the owner ...
C32_AutofixFailureNormalizing ==
    [][\A me \in Running :
          me.kind = "autofix" /\ ~AutofixApply(me) =>
              /\ pending' = pending
              /\ \A u \in Users :
                    \/ ledger'[u] = ledger[u]
                    \/ /\ u = pending[me.pid].owner
                       /\ RStripChars(ledger'[u].content, {NL}) = RStripChars(ledger[u].content, {NL})
              /\ AutofixFail(me) => Fixable(pending'[me.pid])]_vars

\* the LLM call of an autofix is under way after summarize_accounts rewrote
\* the ledger the failed commit had restored
C32_Witness ==
    \E me \in Running :
        /\ me.kind = "autofix"
        /\ me.pc = "llm"
        /\ Fixable(pending[me.pid])
        /\ ledger0[me.user] = File(<<"p", NL, NL, NL>>)
        /\ ledger[me.user] = File(<<"p", NL>>)

-----------------------------------------------------------------------------
(* Properties of the operations that read the ledger *)

\* after differs from before only in that the run of newlines at its end is
\* one newline
NewlineRunReplaced(before, after) ==
    /\ before.exists
    /\ after = File(RStripChars(before.content, {NL}) \o <<NL>>)

\* C33. Read operations are read-only: list_accounts, posting_exists,
\* history_records, transaction_history_summary and suggest_counter_account
\* leave every ledger file as it is; summarize_accounts leaves it as it is or
\* replaces its run of trailing newlines by one newline; a summarize_accounts
\* that follows a summarize_accounts writes nothing.
C33_ReadOnly ==
    [][/\ (\/ CallListAccounts
           \/ CallPostingExists
           \/ CallHistoryRecords
           \/ CallHistorySummary
           \/ CallSuggestCounterAccount) => ledger' = ledger
       /\ CallSummarizeAccounts =>
              /\ ledger'["u2"] = ledger["u2"]
              /\ ledger'["u1"] = ledger["u1"] \/ NewlineRunReplaced(ledger["u1"], ledger'["u1"])
              /\ call.method = "summarize_accounts" => ledger' = ledger]_vars

\* summarize_accounts twice on a ledger that ended in a blank and two
\* newlines: the first call rewrote it, the second did not
C33_Witness ==
    /\ call.method = "summarize_accounts"
    /\ hist = <<File(<<"p", SP, NL, NL>>), File(<<"p", SP, NL>>), File(<<"p", SP, NL>>)>>
    /\ book # <<>>

-----------------------------------------------------------------------------
(* Properties of StatementExtractor.generate_entries *)

GenerateReturned ==
    call # NoCall /\ call.method = "generate_entries" /\ ~call.extract_raised /\ ~result.raised

\* posting_exists reports the ledger posting of the transaction
Reported(statement, txn) ==
    PostingExists(ledger["u1"], book, Strip(statement.ledger_account),
                  [type |-> "Decimal", value |-> txn.amount, text |-> <<>>],
                  statement.currency, txn.date).value

\* the places of the transactions that are not skipped, in statement order
KeptPlaces(statement) ==
    SelectSeq([k \in 1..Len(statement.transactions) |-> k],
              LAMBDA k : /\ statement.transactions[k].amount # 0
                         /\ ~Reported(statement, statement.transactions[k]))

\* C34. Statement entry accounting: when generate_entries returns, new_count +
\* skipped is the number of transactions; the skipped ones are those of amount
\* zero or reported by posting_exists; the list is empty when new_count is 0
\* and else a heading followed by the entries of the others in statement order;
\* a pending entry is created only when new_count > 0.
C34_EntryAccounting ==
    /\ GenerateReturned =>
          LET statement == call.statement
              kept == KeptPlaces(statement)
          IN  /\ result.new_count + result.skipped = Len(statement.transactions)
              /\ result.new_count = Len(kept)
              /\ result.new_count = 0 => result.entries = <<>>
              /\ result.new_count > 0 =>
                    /\ Len(result.entries) = result.new_count + 1
                    /\ result.entries[1] = Heading
                    /\ \A k \in 1..Len(kept) :
                          LET txn == statement.transactions[kept[k]]
                              entry == result.entries[k + 1]
                          IN  /\ entry.date = txn.date
                              /\ entry.ledger_amount = txn.amount
                              /\ entry.description = SanitizeDescription(txn.description)
    /\ (\E p \in PendingIds : pending[p] # NoRow) => GenerateReturned /\ result.new_count > 0

\* two payments of day 1 and day 2: the first is in the ledger, the second
\* makes the pending entry
C34_Witness ==
    /\ GenerateReturned
    /\ result.new_count = 1
    /\ result.skipped = 1
    /\ pending[1].status = "pending"
    /\ Len(pending[1].entries) = 2

-----------------------------------------------------------------------------
(* Properties of the instruction dialogue *)

\* C35. Instruction edit by reply: a reply to a force-reply prompt of
\* /instruction or /instruction edit stores the trimmed reply text as the
\* instruction, or clears the instruction for 'reset' and 'clear', and is not
\* handled as a transaction description.
C35_EditByReply ==
    (call # NoCall /\ call.method = "reply" /\ hist[call.replied_to].force_reply) =>
        /\ result.handled_as = "instruction_reply"
        /\ book = IF LowerText(Strip(call.text)) \in {<<"reset">>, <<"clear">>}
                  THEN NoInstruction ELSE Strip(call.text)

-----------------------------------------------------------------------------
(* Properties of generate_accounting_entry *)

\* the call has returned or raised
GenerateEnded == call.method = "generate" /\ call.pc \in {"returned", "raised"}

\* what holds of a call of generate_accounting_entry at every moment
BoundedRetry ==
    call.method = "generate" =>
        /\ Len(hist) <= 3
        /\ \A k \in 1..Len(hist) :
              /\ (hist[k].entries # <<>> \/ hist[k].summary # <<>>) =>
                    /\ k = Len(hist)
                    /\ call.pc = "returned"
                    /\ result = [method |-> "returned", value |-> hist[k]]
              /\ (hist[k].kind = "ValueError" /\ ~Retryable(hist[k].message)) =>
                    /\ k = Len(hist)
                    /\ call.pc = "raised"
                    /\ result = [method |-> "raised", value |-> hist[k]]
        /\ call.pc = "returned" =>
              /\ hist # <<>>
              /\ result.value = hist[Len(hist)]
              /\ result.value.entries # <<>> \/ result.value.summary # <<>>
        /\ GenerateEnded <=> result # NoCall

\* C36. Bounded LLM retry: a call of generate_accounting_entry calls the
\* model at most 3 times, ends by returning a result or raising, returns at
\* the first attempt whose result has entries or a summary, and raises without
\* another attempt on a ValueError whose message has no retryable phrase.
C36_BoundedRetry == []BoundedRetry /\ (GenerateRunning ~> GenerateEnded)

\* a call that returned a summary without entries at its third attempt, after
\* an empty result and a retryable ValueError
C36_Witness ==
    /\ call.method = "generate" /\ call.pc = "returned"
    /\ Len(hist) = 3
    /\ hist[1].kind = "LLMResult"
    /\ hist[2].kind = "ValueError"
    /\ result.value = LLMResult(<<>>, <<"s">>)

-----------------------------------------------------------------------------
(* Properties of FavaManager *)

\* C37. Single Fava process: whatever the interleaving of start, refresh and
\* stop, at most one process started by the manager is alive, the only
\* process alive is the one held, a process is spawned only when the previous
\* one has exited and its handle has been dropped, and when stop returns no
\* handle is held.
C37_SingleProcess ==
    /\ Cardinality(book.alive) <= 1
    /\ book.alive \subseteq {book.process}
    /\ \A t \in FavaCallers :
          call[t].pc = "spawn" => book.alive = {} /\ book.process = 0
    /\ (result # NoCall /\ result.method = "stop") => result.process = 0

\* stop has returned after the first process was stopped, and a refresh that
\* waited for the lock is about to spawn the next
C37_Witness ==
    /\ result # NoCall /\ result.method = "stop" /\ result.process = 0
    /\ Len(book.runs) = 1
    /\ \E t \in FavaCallers : call[t].pc = "spawn"

\* C38. Fava follows the ledger set: when start or refresh returns after a
\* successful spawn or without a spawn, a process is held exactly if the
\* refresh found a ledger file, and the recorded ledger set is the one the held
\* process was started with; a refresh that finds the recorded ledgers and a
\* live process keeps that process; a refresh after a failed spawn that finds
\* a ledger spawns again.
C38_FollowsLedgers ==
    (result # NoCall /\ result.method \in {"start", "refresh"}) =>
        /\ result.outcome \in {"spawned", "none", "kept"} =>
              /\ (result.process # 0) <=> (result.ledgers # {})
              /\ result.process # 0 =>
                    result.current_ledgers = result.runs[result.process]
        /\ (result.ledgers = result.recorded /\ result.before # 0 /\ result.live) =>
              /\ result.outcome = "kept"
              /\ result.process = result.before
              /\ Len(result.runs) = result.spawns
        /\ (result.previous = "failed" /\ result.ledgers # {}) =>
              result.outcome \in {"spawned", "failed"}

\* a refresh spawned a process after the spawn of the refresh before it failed
C38_Witness ==
    /\ result # NoCall /\ result.method = "refresh"
    /\ result.previous = "failed"
    /\ result.outcome = "spawned"
    /\ result.process = 1

\* a refresh kept the running process
C38_WitnessKept ==
    /\ result # NoCall /\ result.method = "refresh"
    /\ result.outcome = "kept"
    /\ result.process = 1

-----------------------------------------------------------------------------
(* Properties of the routes *)

Forwarded == call # NoCall /\ result.forwarded

\* the request was made in the session of a user and asks Fava for a path
\* that begins with the segment of that user
OwnPath ==
    /\ call.session_user # NoSession
    /\ result.path # <<>>
    /\ result.path[1] = call.session_user
    /\ Len(result.path) > 1 => result.path[2] = "/"

\* C39. Report proxy isolation: on every route a request is forwarded to Fava
\* only in the session of a logged-in user and for a path whose first segment
\* is that user's id.
C39_ProxyIsolation == Forwarded => OwnPath

\* C39, for every route but /static/{asset_path}: that route forwards every
\* request, with or without a session, to /static/{asset_path} of Fava.
C39_ProxyIsolationButStatic ==
    Forwarded =>
        IF call.route = "proxy_fava_static"
        THEN IsPrefix(<<"static", "/">>, result.path)
        ELSE OwnPath

\* user 1 asked for a page of their own and the catch-all route forwarded it
C39_Witness ==
    /\ Forwarded
    /\ call.route = "proxy_fava_catch_all"
    /\ call.session_user = "1"
    /\ result.path = <<"1", "/", "income_statement">>

=============================================================================
